---- MODULE Spec2Model ----
(***************************************************************************)
(* A model of `my` (oleiade/mymy): one invocation of the command-line      *)
(* tool, from the parsed command to the process exit.  The aggregator      *)
(* (execute_command and the handle_* functions of main.rs), the result     *)
(* model (CommandResult, Everything) and the two projections (Display and  *)
(* Serialize) are modelled; the operating-system and network probes are    *)
(* the environment and return nondeterministically.                        *)
(*                                                                         *)
(* Text is modelled as TLA+ strings, a text buffer as the sequence of its  *)
(* lines (the last one being the line under construction).  Colours are    *)
(* left out: they add escape sequences, never characters of the layout.    *)
(***************************************************************************)
EXTENDS Integers, Sequences, FiniteSets, TLC

(***************************************************************************)
(* Bounds of the model.                                                    *)
(***************************************************************************)
\* longest list a list probe (name servers, interfaces, disks) returns in Spec
MaxList == 1
\* longest list of name servers and of interfaces drawn in SpecNetwork
MaxRows == 2
\* byte counts drawn in SpecFormat: 0..MaxSmallBytes, and as far on both sides
\* of KILO and of MEGA
MaxSmallBytes == 40
\* in SpecCalls: how far on both sides of a unit the byte counts are drawn, and
\* the largest of the small numerators and denominators
MaxDelta == 3
MaxConf == 3
MaxIfaces == 3

(***************************************************************************)
(* Option<T> and Result<T, anyhow::Error>.  An anyhow error is the chain   *)
(* of its messages, outermost context first, root cause last.              *)
(***************************************************************************)
None == [some |-> FALSE]
Some(v) == [some |-> TRUE, v |-> v]
Ok(v) == [ok |-> TRUE, v |-> v]
Err(chain) == [ok |-> FALSE, e |-> chain]
Pending == [ok |-> FALSE, e |-> <<>>]

\* Result::context / with_context: wrap the error, leave a value alone
context(r, msg) == IF r.ok THEN r ELSE Err(<<msg>> \o r.e)

\* Display of an anyhow error ({e}): the outermost message only
ErrorDisplay(chain) == chain[1]

(***************************************************************************)
(* Strings.                                                                *)
(***************************************************************************)
Blank == "                                                            "
Spaces(n) == SubSeq(Blank, 1, n)

\* {:<w$}: pad with spaces on the right up to w characters, never truncate
PadLeftAligned(s, w) == IF Len(s) >= w THEN s ELSE s \o Spaces(w - Len(s))

\* {:02}
Pad2(n) == IF n < 10 THEN "0" \o ToString(n) ELSE ToString(n)

IsPrefix(p, s) == Len(p) <= Len(s) /\ SubSeq(s, 1, Len(p)) = p

Mentions(s, w) == \E i \in 1..(Len(s) - Len(w) + 1) : SubSeq(s, i, i + Len(w) - 1) = w

Max(S) == CHOOSE x \in S : \A y \in S : y <= x

RECURSIVE SeqsUpTo(_, _)
\* all sequences over S of length at most n
SeqsUpTo(S, n) ==
    IF n = 0 THEN {<<>>}
    ELSE LET shorter == SeqsUpTo(S, n - 1)
         IN  shorter \cup {Append(s, x) : s \in {t \in shorter : Len(t) = n - 1}, x \in S}

(***************************************************************************)
(* Text buffers (std::fmt::Formatter).                                     *)
(***************************************************************************)
EmptyBuffer == <<"">>
\* write!(f, "{s}") with s free of newlines
Write(buf, s) == [buf EXCEPT ![Len(buf)] = @ \o s]
\* write!(f, "\n")
NewLine(buf) == Append(buf, "")
\* writeln!(f, "{s}")
WriteLn(buf, s) == NewLine(Write(buf, s))

RECURSIVE WriteLines(_, _)
WriteLines(buf, lines) ==
    IF lines = <<>> THEN buf ELSE WriteLines(WriteLn(buf, Head(lines)), Tail(lines))

\* <Vec<String>>::join("\n") seen as lines: the empty list joins to one empty line
JoinLines(items) == IF items = <<>> THEN <<"">> ELSE items

(***************************************************************************)
(* format.rs: the shared numeric formatting.  The arithmetic is that of    *)
(* the code on unbounded integers; u64 never wraps in it, because          *)
(* remainder < unit <= 2^50 gives remainder * 100 < 2^57.                  *)
(***************************************************************************)
KILO == 1024
MEGA == 1024 * KILO
GIGA == 1024 * MEGA
TERA == 1024 * GIGA
PETA == 1024 * TERA

format_scaled(bytes, unit, suffix) ==
    LET whole == bytes \div unit
        remainder == bytes % unit
        decimals == (remainder * 100) \div unit
    IN  ToString(whole) \o "." \o Pad2(decimals) \o " " \o suffix

\* a human_readable_size that prints the bytes bracket like the other brackets
human_readable_size_scaled_bytes(bytes) ==
    IF bytes < KILO THEN format_scaled(bytes, 1, "B")
    ELSE IF bytes < MEGA THEN format_scaled(bytes, KILO, "KiB")
    ELSE format_scaled(bytes, MEGA, "MiB")

human_readable_size(bytes) ==
    IF bytes < KILO THEN ToString(bytes) \o " B"
    ELSE IF bytes < MEGA THEN format_scaled(bytes, KILO, "KiB")
    ELSE IF bytes < GIGA THEN format_scaled(bytes, MEGA, "MiB")
    ELSE IF bytes < TERA THEN format_scaled(bytes, GIGA, "GiB")
    ELSE IF bytes < PETA THEN format_scaled(bytes, TERA, "TiB")
    ELSE format_scaled(bytes, PETA, "PiB")

\* Percentage::from_ratio: tenths of a percent; the u128 product cannot wrap,
\* and a quotient that does not fit u64 is clamped to u64::MAX
U64Max == 65536 * 65536 * 65536 * 65536 - 1
\* q < 2^64, decided 16 bits at a time
FitsU64(q) == (((q \div 65536) \div 65536) \div 65536) \div 65536 = 0
from_ratio(numerator, denominator) ==
    IF denominator = 0 THEN 0
    ELSE LET q == (numerator * 1000) \div denominator
         IN  IF FitsU64(q) THEN q ELSE U64Max

\* Display for Percentage
PercentageDisplay(tenths) == ToString(tenths \div 10) \o "." \o ToString(tenths % 10)

(***************************************************************************)
(* format.rs at full width.  A u64 or u128 value is written in base KILO   *)
(* as the sequence of its digits, least significant first and without      *)
(* leading zeros (zero is the empty sequence), so that byte counts up to   *)
(* u64::MAX and the u128 product of from_ratio are computed exactly.       *)
(***************************************************************************)
RECURSIVE Trim(_)
\* drop the zero digits at the most significant end
Trim(w) == IF w # <<>> /\ w[Len(w)] = 0 THEN Trim(SubSeq(w, 1, Len(w) - 1)) ELSE w

RECURSIVE Wide(_)
\* the digits of a small number
Wide(n) == IF n = 0 THEN <<>> ELSE <<n % KILO>> \o Wide(n \div KILO)

RECURSIVE Small(_)
\* the number a few digits write
Small(w) == IF w = <<>> THEN 0 ELSE w[1] + KILO * Small(Tail(w))

\* 1024^k
Unit(k) == [i \in 1..k |-> 0] \o <<1>>

RECURSIVE LessFrom(_, _, _)
LessFrom(a, b, i) ==
    IF i = 0 THEN FALSE
    ELSE IF a[i] # b[i] THEN a[i] < b[i]
    ELSE LessFrom(a, b, i - 1)

\* a < b
Less(a, b) == IF Len(a) # Len(b) THEN Len(a) < Len(b) ELSE LessFrom(a, b, Len(a))

RECURSIVE MulCarry(_, _, _)
MulCarry(a, m, carry) ==
    IF a = <<>> THEN Wide(carry)
    ELSE <<(Head(a) * m + carry) % KILO>> \o MulCarry(Tail(a), m, (Head(a) * m + carry) \div KILO)

\* a * m for a small m
MulSmall(a, m) == Trim(MulCarry(a, m, 0))

RECURSIVE SubBorrow(_, _, _)
SubBorrow(a, b, borrow) ==
    IF a = <<>> THEN <<>>
    ELSE LET d == Head(a) - (IF b = <<>> THEN 0 ELSE Head(b)) - borrow
         IN  <<d % KILO>> \o SubBorrow(Tail(a), IF b = <<>> THEN <<>> ELSE Tail(b),
                                       IF d < 0 THEN 1 ELSE 0)

\* a - b, for b <= a
Sub(a, b) == Trim(SubBorrow(a, b, 0))

RECURSIVE AddCarry(_, _, _)
AddCarry(a, b, carry) ==
    IF a = <<>> /\ b = <<>> THEN Wide(carry)
    ELSE LET d == (IF a = <<>> THEN 0 ELSE Head(a)) + (IF b = <<>> THEN 0 ELSE Head(b)) + carry
         IN  <<d % KILO>> \o AddCarry(IF a = <<>> THEN <<>> ELSE Tail(a),
                                      IF b = <<>> THEN <<>> ELSE Tail(b), d \div KILO)

\* a + b
Add(a, b) == AddCarry(a, b, 0)

RECURSIVE QuotientDigit(_, _, _, _)
\* the greatest q in lo..hi with d * q <= r, by bisection
QuotientDigit(r, d, lo, hi) ==
    IF lo = hi THEN lo
    ELSE LET mid == (lo + hi + 1) \div 2
         IN  IF Less(r, MulSmall(d, mid)) THEN QuotientDigit(r, d, lo, mid - 1)
             ELSE QuotientDigit(r, d, mid, hi)

RECURSIVE DivMod(_, _)
\* quotient and remainder of a by d # 0: long division, most significant digit first
DivMod(a, d) ==
    IF a = <<>> THEN [quot |-> <<>>, rem |-> <<>>]
    ELSE LET high == DivMod(Tail(a), d)
             r == Trim(<<Head(a)>> \o high.rem)
             q == QuotientDigit(r, d, 0, KILO - 1)
         IN  [quot |-> Trim(<<q>> \o high.quot), rem |-> Sub(r, MulSmall(d, q))]

Div(a, d) == DivMod(a, d).quot
Mod(a, d) == DivMod(a, d).rem

RECURSIVE Decimal(_)
\* {n}: the decimal digits of a wide number
Decimal(w) ==
    IF Len(w) <= 2 THEN ToString(Small(w))
    ELSE Decimal(Div(w, Wide(10))) \o ToString(Small(Mod(w, Wide(10))))

\* 2^64 and u64::MAX
TwoTo64 == MulSmall(Unit(6), 16)
WideU64Max == Sub(TwoTo64, Wide(1))
\* a u64 product, which wraps
WrappingMulSmall(a, m) == Mod(MulSmall(a, m), TwoTo64)

\* a format_scaled that scales the remainder by 1000
format_scaled_u64_thousandths(bytes, unit, suffix) ==
    LET whole == Div(bytes, unit)
        remainder == Mod(bytes, unit)
        decimals == Div(WrappingMulSmall(remainder, 1000), unit)
    IN  Decimal(whole) \o "." \o Pad2(Small(decimals)) \o " " \o suffix

\* format_scaled on u64 values
format_scaled_u64(bytes, unit, suffix) ==
    LET whole == Div(bytes, unit)
        remainder == Mod(bytes, unit)
        decimals == Div(WrappingMulSmall(remainder, 100), unit)
    IN  Decimal(whole) \o "." \o Pad2(Small(decimals)) \o " " \o suffix

\* a human_readable_size whose brackets include their upper limit
human_readable_size_u64_inclusive(bytes) ==
    IF ~Less(Unit(1), bytes) THEN Decimal(bytes) \o " B"
    ELSE IF ~Less(Unit(2), bytes) THEN format_scaled_u64(bytes, Unit(1), "KiB")
    ELSE IF ~Less(Unit(3), bytes) THEN format_scaled_u64(bytes, Unit(2), "MiB")
    ELSE IF ~Less(Unit(4), bytes) THEN format_scaled_u64(bytes, Unit(3), "GiB")
    ELSE IF ~Less(Unit(5), bytes) THEN format_scaled_u64(bytes, Unit(4), "TiB")
    ELSE format_scaled_u64(bytes, Unit(5), "PiB")

\* human_readable_size on u64 values; KILO .. PETA are Unit(1) .. Unit(5)
human_readable_size_u64(bytes) ==
    IF Less(bytes, Unit(1)) THEN Decimal(bytes) \o " B"
    ELSE IF Less(bytes, Unit(2)) THEN format_scaled_u64(bytes, Unit(1), "KiB")
    ELSE IF Less(bytes, Unit(3)) THEN format_scaled_u64(bytes, Unit(2), "MiB")
    ELSE IF Less(bytes, Unit(4)) THEN format_scaled_u64(bytes, Unit(3), "GiB")
    ELSE IF Less(bytes, Unit(5)) THEN format_scaled_u64(bytes, Unit(4), "TiB")
    ELSE format_scaled_u64(bytes, Unit(5), "PiB")

\* a from_ratio whose product is a u64 product, which wraps
from_ratio_u64_product(numerator, denominator) ==
    IF denominator = <<>> THEN <<>>
    ELSE Div(WrappingMulSmall(numerator, 1000), denominator)

\* Percentage::from_ratio on u64 values: the product is a u128 product, which
\* 2^64 * 1000 cannot wrap; u64::try_from(..).unwrap_or(u64::MAX)
from_ratio_u128(numerator, denominator) ==
    IF denominator = <<>> THEN <<>>
    ELSE LET q == Div(MulSmall(numerator, 1000), denominator)
         IN  IF Less(q, TwoTo64) THEN q ELSE WideU64Max

\* Display for Percentage on u64 tenths
PercentageDisplay_u64(tenths) ==
    Decimal(Div(tenths, Wide(10))) \o "." \o Decimal(Mod(tenths, Wide(10)))

(***************************************************************************)
(* datetime.rs.  A clock-offset (f64 seconds in the code) is modelled as   *)
(* an integer number of ten-thousandths of a second, the precision of its  *)
(* {:.4} rendering.                                                        *)
(***************************************************************************)
\* Local::now(): the clock reading of the invocation
LocalNow ==
    [day_name |-> "Saturday", day_number |-> 8, month_name |-> "April", year |-> 2023,
     week_number |-> 14, hour |-> 20, minute |-> 20, second |-> 2, timezone |-> "+02:00"]

\* the reading of a clock that has passed midnight since
AfterMidnight ==
    [day_name |-> "Sunday", day_number |-> 9, month_name |-> "April", year |-> 2023,
     week_number |-> 14, hour |-> 0, minute |-> 0, second |-> 4, timezone |-> "+02:00"]

\* impl From<DateTime<Local>> for Date
DateFrom(dt) ==
    [day_name |-> dt.day_name, day_number |-> dt.day_number, month_name |-> dt.month_name,
     year |-> dt.year, week_number |-> dt.week_number]

\* impl From<DateTime<Local>> for Time
TimeFrom(dt) ==
    [hour |-> dt.hour, minute |-> dt.minute, second |-> dt.second,
     timezone |-> dt.timezone, offset |-> None]

\* datetime::date(Some(now))
date(now) == DateFrom(now)

DateDisplay(d) ==
    d.day_name \o ", " \o ToString(d.day_number) \o " " \o d.month_name
        \o ", " \o ToString(d.year) \o ", week " \o ToString(d.week_number)

Abs(n) == IF n < 0 THEN 0 - n ELSE n

\* {:.4} of a non-negative number of ten-thousandths
Fixed4(a) ==
    LET frac == a % 10000
        digits == ToString(frac)
    IN  ToString(a \div 10000) \o "." \o SubSeq("0000", 1, 4 - Len(digits)) \o digits

\* a label chosen from the signed offset
OffsetLabel_signed(offset) ==
    IF offset < 5000 THEN "in sync"
    ELSE IF offset < 20000 THEN "slightly off"
    ELSE "significantly off"

OffsetLabel(offset) ==
    IF Abs(offset) < 5000 THEN "in sync"
    ELSE IF Abs(offset) < 20000 THEN "slightly off"
    ELSE "significantly off"

\* Display for Time, as the lines of its text
TimeDisplay(t) ==
    LET first == Pad2(t.hour) \o ":" \o Pad2(t.minute) \o ":" \o Pad2(t.second)
                     \o " " \o t.timezone
        sign == IF t.offset.v >= 0 THEN "+" ELSE "-"
    IN  IF t.offset.some
        THEN <<first,
               "clock offset " \o sign \o Fixed4(Abs(t.offset.v)) \o "s"
                   \o " (" \o OffsetLabel(t.offset.v) \o ")">>
        ELSE <<first>>

\* Display for Datetime
DatetimeDisplay(dt) == <<DateDisplay(dt.date)>> \o TimeDisplay(dt.time)

(***************************************************************************)
(* system.rs                                                               *)
(***************************************************************************)
CpuDisplay(cpu) ==
    cpu.brand \o ", " \o ToString(cpu.core_count) \o " cores running at "
        \o ToString(cpu.frequency \div 1000) \o " GHz"

RamDisplay(ram) ==
    human_readable_size(ram.total) \o " installed, " \o human_readable_size(ram.used)
        \o " in use (" \o PercentageDisplay(from_ratio(ram.used, ram.total)) \o "%)"

\* the colour of the used size and of the percentage in Display for Ram
RamBand_inclusive(ram) ==
    LET p == from_ratio(ram.used, ram.total)
    IN  IF p >= 900 THEN "red" ELSE IF p >= 700 THEN "yellow" ELSE "green"

RamBand(ram) ==
    LET p == from_ratio(ram.used, ram.total)
    IN  IF p > 900 THEN "red" ELSE IF p > 700 THEN "yellow" ELSE "green"

(***************************************************************************)
(* storage.rs.  Its own byte formatter divides in f64 and prints {:.2}:    *)
(* bytes / unit is exact in f64 below 2^53 (unit is a power of two), and   *)
(* {:.2} rounds the exact value to the nearest hundredth, ties to even.    *)
(***************************************************************************)
Float2(bytes, unit) ==
    LET q == (bytes * 100) \div unit
        r == (bytes * 100) % unit
        h == IF 2 * r > unit \/ (2 * r = unit /\ q % 2 = 1) THEN q + 1 ELSE q
    IN  ToString(h \div 100) \o "." \o Pad2(h % 100)

storage_human_readable_size(bytes) ==
    IF bytes < KILO THEN ToString(bytes) \o " B"
    ELSE IF bytes < MEGA THEN Float2(bytes, KILO) \o " KiB"
    ELSE IF bytes < GIGA THEN Float2(bytes, MEGA) \o " MiB"
    ELSE IF bytes < TERA THEN Float2(bytes, GIGA) \o " GiB"
    ELSE IF bytes < PETA THEN Float2(bytes, TERA) \o " TiB"
    ELSE Float2(bytes, PETA) \o " PiB"

\* (free as f64 / total as f64 * 100.0).round().to_string(): round is half away
\* from zero, 0/0 is NaN and x/0 is inf, and a whole f64 prints without a fraction
free_space_percentage(disk) ==
    IF disk.total_space = 0
    THEN IF disk.free_space = 0 THEN "NaN" ELSE "inf"
    ELSE ToString((200 * disk.free_space + disk.total_space) \div (2 * disk.total_space))

DiskInfoDisplay(disk) ==
    disk.name \o ", " \o disk.type_ \o ", "
        \o storage_human_readable_size(disk.free_space) \o " free of "
        \o storage_human_readable_size(disk.total_space)
        \o " (" \o free_space_percentage(disk) \o "% free)"

(***************************************************************************)
(* network.rs                                                              *)
(***************************************************************************)
IpCategoryDisplay(category) ==
    CASE category = "Public" -> "public"
      [] category = "Local" -> "local"
      [] category = "Any" -> "*"

IpDisplay(ip) == IpCategoryDisplay(ip.category) \o "\t" \o ip.address

InterfaceDisplay(iface) == iface.name \o "\t" \o iface.ip

\* Display for DnsServer: "server <order>\t<address>"
DnsServerDisplay(server) == "server " \o ToString(server.order) \o "\t" \o server.address

\* the text before the first ':' (str::split(':').next())
RECURSIVE BeforeColon(_)
BeforeColon(str) ==
    IF str = "" \/ SubSeq(str, 1, 1) = ":" THEN ""
    ELSE SubSeq(str, 1, 1) \o BeforeColon(SubSeq(str, 2, Len(str)))

RECURSIVE dedup(_)
\* Vec::dedup: removes consecutive repeated elements
dedup(v) ==
    IF Len(v) <= 1 THEN v
    ELSE LET rest == dedup(Tail(v))
         IN  IF Head(v) = Head(rest) THEN rest ELSE <<Head(v)>> \o rest

\* the addresses list_dns_servers keeps, from the configured socket addresses
nameservers(socket_addrs) ==
    dedup([i \in 1..Len(socket_addrs) |-> BeforeColon(socket_addrs[i])])

\* each kept address with its 1-indexed position
DnsServers(addresses) ==
    [i \in 1..Len(addresses) |-> [order |-> i, address |-> addresses[i]]]

list_dns_servers(socket_addrs) == DnsServers(nameservers(socket_addrs))

\* loopback (127.0.0.1, ::1) and link-local (169.254.x.x, fe80::...) are hidden
is_default_visible(iface) ==
    ~ \/ IsPrefix("127.", iface.ip)
      \/ iface.ip = "::1"
      \/ IsPrefix("169.254.", iface.ip)
      \/ IsPrefix("fe80:", iface.ip)

\* Vec::retain(is_default_visible): the order-preserving subsequence that passes
retain_default_visible(ifaces) == SelectSeq(ifaces, is_default_visible)

(***************************************************************************)
(* main.rs: the text projection of a snapshot (Display for Everything).    *)
(***************************************************************************)
LABEL_WIDTH == 15

write_section_header(buf, title) == WriteLn(NewLine(buf), " " \o title)

write_field(buf, label, value) ==
    WriteLn(buf, "  " \o PadLeftAligned(label, LABEL_WIDTH) \o value)

RECURSIVE write_indented(_, _)
\* for line in lines { writeln!(f, "{:indent$}{line}", "") } with indent = 2 + LABEL_WIDTH
write_indented(buf, lines) ==
    IF lines = <<>> THEN buf
    ELSE write_indented(WriteLn(buf, Spaces(2 + LABEL_WIDTH) \o Head(lines)), Tail(lines))

\* value is the Display text of the field, as its lines
write_multiline_field(buf, label, value) ==
    IF value = <<>> THEN buf
    ELSE write_indented(
             WriteLn(buf, "  " \o PadLeftAligned(label, LABEL_WIDTH) \o Head(value)),
             Tail(value))

RECURSIVE write_items(_, _)
\* the items after the first: every line of every item, indented
write_items(buf, items) ==
    IF items = <<>> THEN buf
    ELSE write_items(write_indented(buf, Head(items)), Tail(items))

\* items holds the Display text of each item, as its lines
write_vec_field(buf, label, items) ==
    IF items = <<>> THEN buf
    ELSE write_items(write_multiline_field(buf, label, Head(items)), Tail(items))

\* pass 1 of write_network_section: the (field, inner_label, value) rows
network_rows(e) ==
    LET ips == IF e.ips.some
               THEN [i \in 1..Len(e.ips.v) |->
                        [field |-> "ips",
                         inner_label |-> IpCategoryDisplay(e.ips.v[i].category),
                         value |-> e.ips.v[i].address]]
               ELSE <<>>
        dns == IF e.dns.some
               THEN [i \in 1..Len(e.dns.v) |->
                        [field |-> "dns",
                         inner_label |-> "server " \o ToString(e.dns.v[i].order),
                         value |-> e.dns.v[i].address]]
               ELSE <<>>
        interfaces == IF e.interfaces.some
                      THEN [i \in 1..Len(e.interfaces.v) |->
                               [field |-> "interfaces",
                                inner_label |-> e.interfaces.v[i].name,
                                value |-> e.interfaces.v[i].ip]]
                      ELSE <<>>
    IN  ips \o dns \o interfaces

\* an inner_width taken from the first group's rows only
inner_width_first_group(rows) ==
    Max({Len(rows[i].inner_label) : i \in {j \in 1..Len(rows) : rows[j].field = rows[1].field}}
            \cup {0}) + 1

\* pass 2: the widest inner label, plus one
inner_width(rows) == Max({Len(rows[i].inner_label) : i \in 1..Len(rows)} \cup {0}) + 1

\* one iteration of pass 3; current_field is the Option<&str> of the loop
write_network_row(buf, row, iw, current_field) ==
    IF current_field = Some(row.field)
    THEN WriteLn(buf, Spaces(2 + LABEL_WIDTH)
                          \o PadLeftAligned(row.inner_label, iw) \o row.value)
    ELSE WriteLn(buf, "  " \o PadLeftAligned(row.field, LABEL_WIDTH)
                          \o PadLeftAligned(row.inner_label, iw) \o row.value)

\* a loop that forgets to record the field it printed
next_current_field_unchanged(row, current_field) == current_field

\* current_field after the iteration
next_current_field(row, current_field) ==
    IF current_field = Some(row.field) THEN current_field ELSE Some(row.field)

RECURSIVE write_network_rows(_, _, _, _)
write_network_rows(buf, rows, iw, current_field) ==
    IF rows = <<>> THEN buf
    ELSE write_network_rows(write_network_row(buf, Head(rows), iw, current_field),
                            Tail(rows), iw, next_current_field(Head(rows), current_field))

write_network_section(buf, e) ==
    LET rows == network_rows(e)
    IN  IF rows = <<>> THEN buf
        ELSE write_network_rows(buf, rows, inner_width(rows), None)

\* a write_optional_field that prints a placeholder row for an absent field
write_optional_field_placeholder(buf, label, opt, value) ==
    IF opt.some THEN write_field(buf, label, value) ELSE write_field(buf, label, "-")

\* if let Some(x) = &self.x { write_field(f, label, x)?; }
write_optional_field(buf, label, opt, value) ==
    IF opt.some THEN write_field(buf, label, value) ELSE buf

\* System section of Display for Everything
write_system_section(buf, e) ==
    LET b1 == write_optional_field(buf, "hostname", e.hostname, e.hostname.v.hostname)
        b2 == write_optional_field(b1, "username", e.username, e.username.v.username)
        b3 == write_optional_field(b2, "device-name", e.device_name,
                                   e.device_name.v.device_name)
        b4 == write_optional_field(b3, "os", e.os, e.os.v.name)
        b5 == write_field(b4, "architecture", e.architecture.architecture)
        b6 == write_optional_field(b5, "cpu", e.cpu, CpuDisplay(e.cpu.v))
    IN  write_field(b6, "ram", RamDisplay(e.ram))

\* Display for Everything: the text it writes into an empty buffer
EverythingDisplay(e) ==
    LET system == write_system_section(WriteLn(EmptyBuffer, " SYSTEM"), e)
        datetime == write_multiline_field(
                        write_field(write_section_header(system, "DATETIME"),
                                    "date", DateDisplay(e.date)),
                        "time", TimeDisplay(e.time))
        storage_header == write_section_header(datetime, "STORAGE")
        storage == IF e.disks.some
                   THEN write_vec_field(storage_header, "disks",
                            [i \in 1..Len(e.disks.v) |-> <<DiskInfoDisplay(e.disks.v[i])>>])
                   ELSE storage_header
    IN  write_network_section(write_section_header(storage, "NETWORK"), e)

(***************************************************************************)
(* The JSON projection (derive(Serialize)).  A document is a tagged value; *)
(* an object is the sequence of its members in the order serde emits them  *)
(* (declaration order).                                                    *)
(***************************************************************************)
JsonNull == [t |-> "null"]
JsonString(str) == [t |-> "string", s |-> str]
JsonNumber(n) == [t |-> "number", n |-> n]
JsonArray(items) == [t |-> "array", items |-> items]
JsonObject(members) == [t |-> "object", members |-> members]
Member(key, value) == [k |-> key, v |-> value]

Keys(object) == [i \in 1..Len(object.members) |-> object.members[i].k]
HasKey(object, key) == \E i \in 1..Len(object.members) : object.members[i].k = key
ValueOf(object, key) ==
    object.members[CHOOSE i \in 1..Len(object.members) : object.members[i].k = key].v

IpSerialize(ip) ==
    JsonObject(<<Member("ip", JsonString(ip.address)),
                 Member("category", JsonString(ip.category))>>)

DnsServerSerialize(server) ==
    JsonObject(<<Member("order", JsonNumber(server.order)),
                 Member("address", JsonString(server.address))>>)

InterfaceSerialize(iface) ==
    JsonObject(<<Member("name", JsonString(iface.name)), Member("ip", JsonString(iface.ip))>>)

DiskInfoSerialize(disk) ==
    JsonObject(<<Member("name", JsonString(disk.name)),
                 Member("type", JsonString(disk.type_)),
                 Member("total_space_bytes", JsonNumber(disk.total_space)),
                 Member("free_space_bytes", JsonNumber(disk.free_space))>>)

CpuSerialize(cpu) ==
    JsonObject(<<Member("brand", JsonString(cpu.brand)),
                 Member("core_count", JsonNumber(cpu.core_count)),
                 Member("frequency", JsonNumber(cpu.frequency))>>)

RamSerialize(ram) ==
    JsonObject(<<Member("total_ram_bytes", JsonNumber(ram.total)),
                 Member("used_ram_bytes", JsonNumber(ram.used)),
                 Member("free_ram_bytes", JsonNumber(ram.free)),
                 Member("available_ram_bytes", JsonNumber(ram.available))>>)

DateMembers(d) ==
    <<Member("day_name", JsonString(d.day_name)),
      Member("day_number", JsonNumber(d.day_number)),
      Member("month_name", JsonString(d.month_name)),
      Member("year", JsonNumber(d.year)),
      Member("week_number", JsonNumber(d.week_number))>>

\* a Time whose absent offset is serialized as null (no skip_serializing_if)
TimeMembers_null_offset(t) ==
    <<Member("hour", JsonNumber(t.hour)),
      Member("minute", JsonNumber(t.minute)),
      Member("second", JsonNumber(t.second)),
      Member("timezone", JsonString(t.timezone)),
      Member("offset", IF t.offset.some THEN JsonNumber(t.offset.v) ELSE JsonNull)>>

\* offset carries skip_serializing_if = "Option::is_none"
TimeMembers(t) ==
    <<Member("hour", JsonNumber(t.hour)),
      Member("minute", JsonNumber(t.minute)),
      Member("second", JsonNumber(t.second)),
      Member("timezone", JsonString(t.timezone))>>
        \o (IF t.offset.some THEN <<Member("offset", JsonNumber(t.offset.v))>> ELSE <<>>)

DateSerialize(d) == JsonObject(DateMembers(d))
TimeSerialize(t) == JsonObject(TimeMembers(t))
\* a Datetime whose fields are not flattened
DatetimeSerialize_nested(dt) ==
    JsonObject(<<Member("date", DateSerialize(dt.date)), Member("time", TimeSerialize(dt.time))>>)

\* both fields of Datetime are #[serde(flatten)]
DatetimeSerialize(dt) == JsonObject(DateMembers(dt.date) \o TimeMembers(dt.time))

HostnameSerialize(h) == JsonObject(<<Member("hostname", JsonString(h.hostname))>>)
UsernameSerialize(u) == JsonObject(<<Member("username", JsonString(u.username))>>)
DeviceNameSerialize(d) == JsonObject(<<Member("device_name", JsonString(d.device_name))>>)
OperatingSystemSerialize(os) == JsonObject(<<Member("name", JsonString(os.name))>>)
ArchitectureSerialize(a) == JsonObject(<<Member("architecture", JsonString(a.architecture))>>)

IpsArray(ips) == JsonArray([i \in 1..Len(ips) |-> IpSerialize(ips[i])])
DnsArray(servers) == JsonArray([i \in 1..Len(servers) |-> DnsServerSerialize(servers[i])])
InterfacesArray(ifaces) == JsonArray([i \in 1..Len(ifaces) |-> InterfaceSerialize(ifaces[i])])
DisksArray(disks) == JsonArray([i \in 1..Len(disks) |-> DiskInfoSerialize(disks[i])])

\* every Option field of Everything carries skip_serializing_if = "Option::is_none"
EverythingSerialize(e) ==
    JsonObject(
        (IF e.ips.some THEN <<Member("ips", IpsArray(e.ips.v))>> ELSE <<>>)
     \o (IF e.dns.some THEN <<Member("dns", DnsArray(e.dns.v))>> ELSE <<>>)
     \o <<Member("date", DateSerialize(e.date)), Member("time", TimeSerialize(e.time))>>
     \o (IF e.hostname.some THEN <<Member("hostname", HostnameSerialize(e.hostname.v))>>
         ELSE <<>>)
     \o (IF e.username.some THEN <<Member("username", UsernameSerialize(e.username.v))>>
         ELSE <<>>)
     \o (IF e.device_name.some
         THEN <<Member("device_name", DeviceNameSerialize(e.device_name.v))>> ELSE <<>>)
     \o (IF e.os.some THEN <<Member("os", OperatingSystemSerialize(e.os.v))>> ELSE <<>>)
     \o <<Member("architecture", ArchitectureSerialize(e.architecture))>>
     \o (IF e.interfaces.some
         THEN <<Member("interfaces", InterfacesArray(e.interfaces.v))>> ELSE <<>>)
     \o (IF e.disks.some THEN <<Member("disks", DisksArray(e.disks.v))>> ELSE <<>>)
     \o (IF e.cpu.some THEN <<Member("cpu", CpuSerialize(e.cpu.v))>> ELSE <<>>)
     \o <<Member("ram", RamSerialize(e.ram))>>)

(***************************************************************************)
(* main.rs: CommandResult, an untagged union; the list variants wrap       *)
(* their list in a struct with one named field.                            *)
(***************************************************************************)
CommandResult(variant, value) == [variant |-> variant, value |-> value]

CommandResultSerialize(r) ==
    CASE r.variant = "Ips" -> JsonObject(<<Member("ips", IpsArray(r.value))>>)
      [] r.variant = "Dns" -> JsonObject(<<Member("dns_servers", DnsArray(r.value))>>)
      [] r.variant = "Date" -> DateSerialize(r.value)
      [] r.variant = "Time" -> TimeSerialize(r.value)
      [] r.variant = "Datetime" -> DatetimeSerialize(r.value)
      [] r.variant = "Hostname" -> HostnameSerialize(r.value)
      [] r.variant = "Username" -> UsernameSerialize(r.value)
      [] r.variant = "DeviceName" -> DeviceNameSerialize(r.value)
      [] r.variant = "Os" -> OperatingSystemSerialize(r.value)
      [] r.variant = "Architecture" -> ArchitectureSerialize(r.value)
      [] r.variant = "Interfaces" ->
            JsonObject(<<Member("interfaces", InterfacesArray(r.value))>>)
      [] r.variant = "Disks" -> JsonObject(<<Member("disks", DisksArray(r.value))>>)
      [] r.variant = "Cpu" -> CpuSerialize(r.value)
      [] r.variant = "Ram" -> RamSerialize(r.value)
      [] r.variant = "Everything" -> EverythingSerialize(r.value)

\* Display for CommandResult: the text, as its lines
CommandResultDisplay(r) ==
    CASE r.variant = "Ips" ->
            JoinLines([i \in 1..Len(r.value) |-> IpDisplay(r.value[i])])
      [] r.variant = "Dns" ->
            JoinLines([i \in 1..Len(r.value) |-> DnsServerDisplay(r.value[i])])
      [] r.variant = "Date" -> <<DateDisplay(r.value)>>
      [] r.variant = "Time" -> TimeDisplay(r.value)
      [] r.variant = "Datetime" -> DatetimeDisplay(r.value)
      [] r.variant = "Hostname" -> <<r.value.hostname>>
      [] r.variant = "Username" -> <<r.value.username>>
      [] r.variant = "DeviceName" -> <<r.value.device_name>>
      [] r.variant = "Os" -> <<r.value.name>>
      [] r.variant = "Architecture" -> <<r.value.architecture>>
      [] r.variant = "Interfaces" ->
            JoinLines([i \in 1..Len(r.value) |-> InterfaceDisplay(r.value[i])])
      [] r.variant = "Disks" ->
            JoinLines([i \in 1..Len(r.value) |-> DiskInfoDisplay(r.value[i])])
      [] r.variant = "Cpu" -> <<CpuDisplay(r.value)>>
      [] r.variant = "Ram" -> <<RamDisplay(r.value)>>
      [] r.variant = "Everything" -> EverythingDisplay(r.value)

\* what display_result prints on standard output: println! ends the text
\* with a newline
display_result(result, format) ==
    IF format = "Json"
    THEN [kind |-> "json", doc |-> CommandResultSerialize(result)]
    ELSE [kind |-> "text", lines |-> NewLine(CommandResultDisplay(result))]

(***************************************************************************)
(* The environment: what each probe can return.                            *)
(***************************************************************************)
ProbeNames ==
    {"public_ip", "local_ip", "ntp", "dns", "hostname", "username", "device_name", "os",
     "interfaces", "disks", "cpu"}

\* network::query_public_ip(OPENDNS_SERVER_HOST, DNS_DEFAULT_PORT)
PublicIpReturns == {Ok("93.184.216.34"), Err(<<"request timed out">>)}
\* local_ip_address::local_ip()
LocalIpReturns == {Ok("192.168.1.42"), Err(<<"no local ip address found">>)}

\* tokio::time::timeout(5 s, client.synchronize("pool.ntp.org"))
NtpReturns ==
    {[outcome |-> "synchronized", offset |-> 672],
     [outcome |-> "error", e |-> "no response from server"],
     [outcome |-> "elapsed"]}

\* system_conf::read_system_conf(): the name servers of the configuration
NameServerAddrs == {"8.8.8.8:53", "8.8.4.4:53"}
DnsReturnsUpTo(n) ==
    {Err(<<"could not read the system configuration">>)}
        \cup {Ok(list_dns_servers(conf)) : conf \in SeqsUpTo(NameServerAddrs, n)}

\* get_if_addrs::get_if_addrs()
InterfaceEntries ==
    {[name |-> "en0", ip |-> "192.168.1.42"],
     [name |-> "en0", ip |-> "fe80::1a2b:3c4d:5e6f:7890"],
     [name |-> "lo0", ip |-> "127.0.0.1"]}
InterfacesReturns(entries, n) ==
    {Err(<<"could not enumerate the interfaces">>)}
        \cup {Ok(ifaces) : ifaces \in SeqsUpTo(entries, n)}
InterfacesReturnsUpTo(n) == InterfacesReturns(InterfaceEntries, n)

\* the disks sysinfo reports
DiskEntries ==
    {[name |-> "sda1", type_ |-> "SSD", total_space |-> 4194304, free_space |-> 1258291],
     [name |-> "tmpfs", type_ |-> "Unknown", total_space |-> 0, free_space |-> 0]}

RECURSIVE unique_by_name(_)
\* Itertools::unique_by(|disk| disk.name()): the first disk of each name
unique_by_name(disks) ==
    IF disks = <<>> THEN <<>>
    ELSE LET init == unique_by_name(SubSeq(disks, 1, Len(disks) - 1))
             last == disks[Len(disks)]
         IN  IF \E i \in 1..Len(init) : init[i].name = last.name THEN init
             ELSE Append(init, last)

\* storage::list_disks()
DisksReturnsUpTo(n) ==
    {Err(<<"unknown">>)} \cup {Ok(unique_by_name(disks)) : disks \in SeqsUpTo(DiskEntries, n)}

\* system::hostname(), username(), device_name(), os(), cpus(), architecture(), ram()
HostnameReturns == {Ok([hostname |-> "MacBook-Pro.local"]), Err(<<"No such file or directory (os error 2)">>)}
UsernameReturns == {Ok([username |-> "alice"]), Err(<<"No such file or directory (os error 2)">>)}
DeviceNameReturns ==
    {Ok([device_name |-> "Alice's MacBook Pro"]), Err(<<"No such file or directory (os error 2)">>)}
OsReturns == {Ok([name |-> "macOS 15.2 Sequoia"]), Err(<<"No such file or directory (os error 2)">>)}
CpuReturns ==
    {Ok([brand |-> "Apple M1 Pro", core_count |-> 10, frequency |-> 3200]),
     Err(<<"no CPU information available from sysinfo">>)}
architecture == [architecture |-> "aarch64"]
ram == [total |-> 2097152, used |-> 1572864, free |-> 131072, available |-> 524288]

(***************************************************************************)
(* main.rs: the best-effort combinators.  Each yields the value and the    *)
(* lines it prints on standard error.                                      *)
(***************************************************************************)
Outcome(value, warnings) == [value |-> value, stderr |-> warnings]

\* a warn_on_err that drops the error without a warning (Result::ok)
warn_on_err_silent(result, label) ==
    IF result.ok THEN Outcome(Some(result.v), <<>>) ELSE Outcome(None, <<>>)

\* a warn_on_err that falls back to a default value (unwrap_or_default)
warn_on_err_default(result, label) ==
    IF result.ok THEN Outcome(Some(result.v), <<>>)
    ELSE Outcome(Some(<<>>), <<"warning: could not determine " \o label \o ": "
                                   \o ErrorDisplay(result.e)>>)

warn_on_err(result, label) ==
    IF result.ok THEN Outcome(Some(result.v), <<>>)
    ELSE Outcome(None, <<"warning: could not determine " \o label \o ": "
                             \o ErrorDisplay(result.e)>>)

Ip(category, address) == [category |-> category, address |-> address]

\* a gather_ips that gives up unless both probes succeeded
gather_ips_all_or_nothing(public, local) ==
    Outcome(
        IF public.ok /\ local.ok THEN Some(<<Ip("Public", public.v), Ip("Local", local.v)>>)
        ELSE None,
        (IF public.ok THEN <<>>
         ELSE <<"warning: could not determine public IP: " \o ErrorDisplay(public.e)>>)
     \o (IF local.ok THEN <<>>
         ELSE <<"warning: could not determine local IP: " \o ErrorDisplay(local.e)>>))

\* a gather_ips that always returns a list, the local address first
gather_ips_local_first(public, local) ==
    Outcome(
        Some((IF local.ok THEN <<Ip("Local", local.v)>> ELSE <<>>)
                \o (IF public.ok THEN <<Ip("Public", public.v)>> ELSE <<>>)),
        (IF public.ok THEN <<>>
         ELSE <<"warning: could not determine public IP: " \o ErrorDisplay(public.e)>>)
     \o (IF local.ok THEN <<>>
         ELSE <<"warning: could not determine local IP: " \o ErrorDisplay(local.e)>>))

\* gather_ips, from the returns of its two probes
gather_ips(public, local) ==
    LET pub == IF public.ok THEN <<Ip("Public", public.v)>> ELSE <<>>
        loc == IF local.ok THEN <<Ip("Local", local.v)>> ELSE <<>>
        ips == pub \o loc
    IN  Outcome(
            IF ips = <<>> THEN None ELSE Some(ips),
            (IF public.ok THEN <<>>
             ELSE <<"warning: could not determine public IP: " \o ErrorDisplay(public.e)>>)
         \o (IF local.ok THEN <<>>
             ELSE <<"warning: could not determine local IP: " \o ErrorDisplay(local.e)>>))

\* a time that reports a zero offset when the synchronization did not succeed
time_offset_default(now, ntp) ==
    CASE ntp.outcome = "synchronized" ->
            Outcome([TimeFrom(now) EXCEPT !.offset = Some(ntp.offset)], <<>>)
      [] ntp.outcome = "error" ->
            Outcome([TimeFrom(now) EXCEPT !.offset = Some(0)],
                    <<"warning: could not sync with NTP server: " \o ntp.e>>)
      [] ntp.outcome = "elapsed" ->
            Outcome([TimeFrom(now) EXCEPT !.offset = Some(0)], <<"warning: NTP query timed out">>)

\* datetime::time(Some(now)), from the return of the NTP query
time(now, ntp) ==
    CASE ntp.outcome = "synchronized" ->
            Outcome([TimeFrom(now) EXCEPT !.offset = Some(ntp.offset)], <<>>)
      [] ntp.outcome = "error" ->
            Outcome(TimeFrom(now), <<"warning: could not sync with NTP server: " \o ntp.e>>)
      [] ntp.outcome = "elapsed" ->
            Outcome(TimeFrom(now), <<"warning: NTP query timed out">>)

\* what the probe's return is recorded as
Tag(result) == IF result.ok THEN "ok" ELSE "err"
NtpTag(ntp) ==
    CASE ntp.outcome = "synchronized" -> "ok"
      [] ntp.outcome = "error" -> "err"
      [] ntp.outcome = "elapsed" -> "timeout"

(***************************************************************************)
(* The state of one invocation.                                            *)
(***************************************************************************)
VARIABLES
    command,    \* the parsed subcommand: [name, only, all]
    format,     \* --format: "Text" or "Json"
    pc,         \* where main is
    ipsTask,    \* the future awaiting the public-IP query: idle, waiting, done
    timeTask,   \* the future awaiting the NTP query: idle, waiting, done
    probes,     \* what each probe has returned: pending, ok, err, timeout
    locals,     \* the let-bindings of the running handler
    stderr,     \* the lines written to standard error
    result,     \* what execute_command returned, once it has
    stdout,     \* what display_result printed
    exit_code,  \* the exit code of the process, once it has ended
    bytes,      \* the argument of human_readable_size (SpecFormat)
    formatted,  \* what human_readable_size returned (SpecFormat)
    arg,        \* the function called and its arguments (SpecCalls)
    ret,        \* what the function returned, once it has (SpecCalls)
    clock,      \* what Local::now() returns at this moment
    now         \* the clock reading the running handler took, once it has

vars ==
    <<command, format, pc, ipsTask, timeTask, probes, locals, stderr, result, stdout,
      exit_code, bytes, formatted, arg, ret, clock, now>>

Command(name, only, all) == [name |-> name, only |-> only, all |-> all]

Commands ==
    {Command(n, None, FALSE) :
        n \in {"date", "time", "datetime", "dns", "hostname", "username", "device-name",
               "os", "architecture", "disks", "cpu", "ram", "everything"}}
        \cup {Command("ips", only, FALSE) :
                only \in {None, Some("Public"), Some("Local"), Some("Any")}}
        \cup {Command("interfaces", None, all) : all \in BOOLEAN}

Formats == {"Text", "Json"}

NoLocals ==
    [ips |-> None, time |-> TimeFrom(LocalNow), dns |-> None, hostname |-> None,
     username |-> None, device_name |-> None, os |-> None, interfaces |-> None,
     disks |-> None, cpu |-> None]

NoOutput == [kind |-> "none"]

Init ==
    /\ command \in Commands
    /\ format \in Formats
    /\ pc = "execute"
    /\ ipsTask = "idle"
    /\ timeTask = "idle"
    /\ probes = [p \in ProbeNames |-> "pending"]
    /\ locals = NoLocals
    /\ stderr = <<>>
    /\ result = None
    /\ stdout = NoOutput
    /\ exit_code = None
    /\ bytes = 0
    /\ formatted = None
    /\ arg = None
    /\ ret = None
    /\ clock = LocalNow
    /\ now = None

\* execute_command returns r to main
Return(r) ==
    /\ result' = Some(r)
    /\ pc' = "display"

\* what no handler writes
Idle == UNCHANGED <<command, format, bytes, formatted, arg, ret, clock>>

Unused == Idle /\ UNCHANGED now

\* let now = Local::now()
ReadClock == now' = Some(clock) /\ Idle

(***************************************************************************)
(* The handlers without a fallible probe.                                  *)
(***************************************************************************)
handle_date ==
    /\ pc = "execute" /\ command.name = "date"
    /\ Return(Ok(CommandResult("Date", date(clock))))
    /\ UNCHANGED <<ipsTask, timeTask, probes, locals, stderr, stdout, exit_code>>
    /\ ReadClock

handle_architecture ==
    /\ pc = "execute" /\ command.name = "architecture"
    /\ Return(Ok(CommandResult("Architecture", architecture)))
    /\ UNCHANGED <<ipsTask, timeTask, probes, locals, stderr, stdout, exit_code>>
    /\ Unused

handle_ram ==
    /\ pc = "execute" /\ command.name = "ram"
    /\ Return(Ok(CommandResult("Ram", ram)))
    /\ UNCHANGED <<ipsTask, timeTask, probes, locals, stderr, stdout, exit_code>>
    /\ Unused

(***************************************************************************)
(* The strict handlers: one probe, whose failure is the command's error.   *)
(***************************************************************************)
\* the handler of a strict command returns r after its probe returned
Strict(probe, tag, r) ==
    /\ probes' = [probes EXCEPT ![probe] = tag]
    /\ Return(r)
    /\ UNCHANGED <<ipsTask, timeTask, locals, stderr, stdout, exit_code>>
    /\ Unused

\* r.map(CommandResult::Variant)
MapResult(r, variant) == IF r.ok THEN Ok(CommandResult(variant, r.v)) ELSE r

handle_dns_result(servers) ==
    MapResult(context(servers, "listing the system's dns servers failed"), "Dns")

handle_dns ==
    /\ pc = "execute" /\ command.name = "dns"
    /\ \E servers \in DnsReturnsUpTo(MaxList) :
        Strict("dns", Tag(servers), handle_dns_result(servers))

handle_hostname_result(r) == MapResult(r, "Hostname")
handle_hostname ==
    /\ pc = "execute" /\ command.name = "hostname"
    /\ \E r \in HostnameReturns : Strict("hostname", Tag(r), handle_hostname_result(r))

handle_username_result(r) == MapResult(r, "Username")
handle_username ==
    /\ pc = "execute" /\ command.name = "username"
    /\ \E r \in UsernameReturns : Strict("username", Tag(r), handle_username_result(r))

handle_device_name_result(r) == MapResult(r, "DeviceName")
handle_device_name ==
    /\ pc = "execute" /\ command.name = "device-name"
    /\ \E r \in DeviceNameReturns :
        Strict("device_name", Tag(r), handle_device_name_result(r))

handle_os_command_result(r) == MapResult(r, "Os")
handle_os_command ==
    /\ pc = "execute" /\ command.name = "os"
    /\ \E r \in OsReturns : Strict("os", Tag(r), handle_os_command_result(r))

\* a handler that hides the loopback and link-local entries even with --all
handle_interfaces_result_always_hiding(r, show_all) ==
    LET interfaces == context(r, "listing the system's network interfaces failed")
    IN  IF ~interfaces.ok THEN interfaces
        ELSE Ok(CommandResult("Interfaces", retain_default_visible(interfaces.v)))

handle_interfaces_result(r, show_all) ==
    LET interfaces == context(r, "listing the system's network interfaces failed")
    IN  IF ~interfaces.ok THEN interfaces
        ELSE Ok(CommandResult("Interfaces",
                    IF show_all THEN interfaces.v ELSE retain_default_visible(interfaces.v)))

handle_interfaces ==
    /\ pc = "execute" /\ command.name = "interfaces"
    /\ \E r \in InterfacesReturnsUpTo(MaxList) :
        Strict("interfaces", Tag(r), handle_interfaces_result(r, command.all))

handle_disks_result(r) == MapResult(context(r, "listing the disks failed"), "Disks")
handle_disks ==
    /\ pc = "execute" /\ command.name = "disks"
    /\ \E r \in DisksReturnsUpTo(MaxList) : Strict("disks", Tag(r), handle_disks_result(r))

handle_cpu_result(r) == MapResult(context(r, "listing the system's cpus failed"), "Cpu")
handle_cpu ==
    /\ pc = "execute" /\ command.name = "cpu"
    /\ \E r \in CpuReturns : Strict("cpu", Tag(r), handle_cpu_result(r))

(***************************************************************************)
(* handle_ips                                                              *)
(***************************************************************************)
\* --only public and the any path first await the public-IP query
handle_ips_start ==
    /\ pc = "execute" /\ command.name = "ips" /\ command.only # Some("Local")
    /\ pc' = "await"
    /\ ipsTask' = "waiting"
    /\ UNCHANGED <<timeTask, probes, locals, stderr, result, stdout, exit_code>>
    /\ Unused

handle_ips_public_result(public_ip) ==
    LET r == context(public_ip,
                 "looking up public ip failed; reason: querying dns server 208.67.222.222 on port 53 failed")
    IN  IF r.ok THEN Ok(CommandResult("Ips", <<Ip("Public", r.v)>>)) ELSE r

handle_ips_public ==
    /\ pc = "await" /\ command.name = "ips" /\ command.only = Some("Public")
    /\ ipsTask = "waiting"
    /\ \E public_ip \in PublicIpReturns :
        /\ probes' = [probes EXCEPT !["public_ip"] = Tag(public_ip)]
        /\ Return(handle_ips_public_result(public_ip))
    /\ ipsTask' = "done"
    /\ UNCHANGED <<timeTask, locals, stderr, stdout, exit_code>>
    /\ Unused

handle_ips_local_result(local_ip) ==
    LET r == context(local_ip,
                 "looking up local ip failed; reason: querying local ip address failed")
    IN  IF r.ok THEN Ok(CommandResult("Ips", <<Ip("Local", r.v)>>)) ELSE r

handle_ips_local ==
    /\ pc = "execute" /\ command.name = "ips" /\ command.only = Some("Local")
    /\ \E local_ip \in LocalIpReturns :
        /\ probes' = [probes EXCEPT !["local_ip"] = Tag(local_ip)]
        /\ Return(handle_ips_local_result(local_ip))
    /\ UNCHANGED <<ipsTask, timeTask, locals, stderr, stdout, exit_code>>
    /\ Unused

\* gather_ips().await.ok_or_else(..).map(..)
handle_ips_any_result(ips) ==
    IF ips.some THEN Ok(CommandResult("Ips", ips.v))
    ELSE Err(<<"could not determine any IP addresses">>)

\* the public-IP query completes; gather_ips then probes the local IP and returns
handle_ips_any ==
    /\ pc = "await" /\ command.name = "ips" /\ command.only \in {None, Some("Any")}
    /\ ipsTask = "waiting"
    /\ \E public_ip \in PublicIpReturns, local_ip \in LocalIpReturns :
        LET out == gather_ips(public_ip, local_ip)
        IN  /\ probes' = [probes EXCEPT !["public_ip"] = Tag(public_ip),
                                        !["local_ip"] = Tag(local_ip)]
            /\ locals' = [locals EXCEPT !.ips = out.value]
            /\ stderr' = stderr \o out.stderr
            /\ Return(handle_ips_any_result(out.value))
    /\ ipsTask' = "done"
    /\ UNCHANGED <<timeTask, stdout, exit_code>>
    /\ Unused

(***************************************************************************)
(* handle_time, handle_datetime                                            *)
(***************************************************************************)
handle_time_start ==
    /\ pc = "execute" /\ command.name \in {"time", "datetime"}
    /\ pc' = "await"
    /\ timeTask' = "waiting"
    /\ UNCHANGED <<ipsTask, probes, locals, stderr, result, stdout, exit_code>>
    /\ ReadClock

\* the NTP query returns or its deadline passes; the handler returns
TimeResume(finish(_)) ==
    /\ \E ntp \in NtpReturns :
        LET out == time(now.v, ntp)
        IN  /\ probes' = [probes EXCEPT !["ntp"] = NtpTag(ntp)]
            /\ locals' = [locals EXCEPT !.time = out.value]
            /\ stderr' = stderr \o out.stderr
            /\ Return(finish(out.value))
    /\ timeTask' = "done"
    /\ UNCHANGED <<ipsTask, stdout, exit_code>>
    /\ Unused

handle_time_result(t) == Ok(CommandResult("Time", t))
handle_time ==
    /\ pc = "await" /\ command.name = "time" /\ timeTask = "waiting"
    /\ TimeResume(handle_time_result)

\* a datetime whose date reads the clock again once the time is known
handle_datetime_result_second_reading(t) ==
    Ok(CommandResult("Datetime", [date |-> date(clock), time |-> t]))

\* datetime::datetime(): the date and the time of one clock reading
handle_datetime_result(t) ==
    Ok(CommandResult("Datetime", [date |-> date(now.v), time |-> t]))
handle_datetime ==
    /\ pc = "await" /\ command.name = "datetime" /\ timeTask = "waiting"
    /\ TimeResume(handle_datetime_result)

(***************************************************************************)
(* handle_everything                                                       *)
(***************************************************************************)
\* tokio::join!(gather_ips(), datetime::time(Some(now))): both futures are
\* polled and each awaits its query
handle_everything_start ==
    /\ pc = "execute" /\ command.name = "everything"
    /\ pc' = "join"
    /\ ipsTask' = "waiting"
    /\ timeTask' = "waiting"
    /\ UNCHANGED <<probes, locals, stderr, result, stdout, exit_code>>
    /\ ReadClock

\* the public-IP query completes; gather_ips then probes the local IP and returns
everything_gather_ips ==
    /\ pc = "join" /\ ipsTask = "waiting"
    /\ \E public_ip \in PublicIpReturns, local_ip \in LocalIpReturns :
        LET out == gather_ips(public_ip, local_ip)
        IN  /\ probes' = [probes EXCEPT !["public_ip"] = Tag(public_ip),
                                        !["local_ip"] = Tag(local_ip)]
            /\ locals' = [locals EXCEPT !.ips = out.value]
            /\ stderr' = stderr \o out.stderr
    /\ ipsTask' = "done"
    /\ UNCHANGED <<pc, timeTask, result, stdout, exit_code>>
    /\ Unused

\* the NTP query returns or its deadline passes
everything_time ==
    /\ pc = "join" /\ timeTask = "waiting"
    /\ \E ntp \in NtpReturns :
        LET out == time(now.v, ntp)
        IN  /\ probes' = [probes EXCEPT !["ntp"] = NtpTag(ntp)]
            /\ locals' = [locals EXCEPT !.time = out.value]
            /\ stderr' = stderr \o out.stderr
    /\ timeTask' = "done"
    /\ UNCHANGED <<pc, ipsTask, result, stdout, exit_code>>
    /\ Unused

\* a join that completes as soon as gather_ips has
everything_joined_after_ips ==
    /\ pc = "join" /\ ipsTask = "done"
    /\ pc' = "dns"
    /\ UNCHANGED <<ipsTask, timeTask, probes, locals, stderr, result, stdout, exit_code>>
    /\ Unused

\* the join completes once both futures have
everything_joined ==
    /\ pc = "join" /\ ipsTask = "done" /\ timeTask = "done"
    /\ pc' = "dns"
    /\ UNCHANGED <<ipsTask, timeTask, probes, locals, stderr, result, stdout, exit_code>>
    /\ Unused

\* one synchronous best-effort probe of handle_everything: the probe returned r
\* (context already applied), the binding `field` takes the Option
BestEffort(probe, field, tag, out, next) ==
    /\ probes' = [probes EXCEPT ![probe] = tag]
    /\ locals' = [locals EXCEPT ![field] = out.value]
    /\ stderr' = stderr \o out.stderr
    /\ pc' = next
    /\ UNCHANGED <<ipsTask, timeTask, result, stdout, exit_code>>
    /\ Unused

everything_dns_binding(r) == warn_on_err(context(r, "listing DNS servers"), "dns servers")
everything_dns ==
    /\ pc = "dns"
    /\ \E r \in DnsReturnsUpTo(MaxList) :
        BestEffort("dns", "dns", Tag(r), everything_dns_binding(r), "hostname")

everything_hostname ==
    /\ pc = "hostname"
    /\ \E r \in HostnameReturns :
        BestEffort("hostname", "hostname", Tag(r),
                   warn_on_err(r, "hostname"), "username")

everything_username ==
    /\ pc = "username"
    /\ \E r \in UsernameReturns :
        BestEffort("username", "username", Tag(r),
                   warn_on_err(r, "username"), "device_name")

everything_device_name ==
    /\ pc = "device_name"
    /\ \E r \in DeviceNameReturns :
        BestEffort("device_name", "device_name", Tag(r),
                   warn_on_err(r, "device name"), "os")

everything_os ==
    /\ pc = "os"
    /\ \E r \in OsReturns :
        BestEffort("os", "os", Tag(r), warn_on_err(r, "os"), "interfaces")

\* warn_on_err(..).map(|ifaces| { ifaces.retain(is_default_visible); ifaces })
everything_interfaces_binding(r) ==
    LET out == warn_on_err(context(r, "listing network interfaces"), "network interfaces")
    IN  IF out.value.some
        THEN Outcome(Some(retain_default_visible(out.value.v)), out.stderr)
        ELSE out

everything_interfaces ==
    /\ pc = "interfaces"
    /\ \E r \in InterfacesReturnsUpTo(MaxList) :
        BestEffort("interfaces", "interfaces", Tag(r),
                   everything_interfaces_binding(r), "disks")

everything_disks ==
    /\ pc = "disks"
    /\ \E r \in DisksReturnsUpTo(MaxList) :
        BestEffort("disks", "disks", Tag(r),
                   warn_on_err(context(r, "listing disks"), "disks"), "cpu")

\* the Everything struct built from the bindings
Everything(l) ==
    [ips |-> l.ips, dns |-> l.dns, date |-> date(now.v), time |-> l.time,
     hostname |-> l.hostname, username |-> l.username, device_name |-> l.device_name,
     os |-> l.os, architecture |-> architecture, interfaces |-> l.interfaces,
     disks |-> l.disks, cpu |-> l.cpu, ram |-> ram]

\* the last probe; the handler then builds the snapshot and returns it
everything_cpu ==
    /\ pc = "cpu"
    /\ \E r \in CpuReturns :
        LET out == warn_on_err(context(r, "listing CPUs"), "cpu")
        IN  /\ probes' = [probes EXCEPT !["cpu"] = Tag(r)]
            /\ locals' = [locals EXCEPT !.cpu = out.value]
            /\ stderr' = stderr \o out.stderr
            /\ Return(Ok(CommandResult("Everything", Everything(locals'))))
    /\ UNCHANGED <<ipsTask, timeTask, stdout, exit_code>>
    /\ Unused

(***************************************************************************)
(* main: display the result, or report the error, and exit.                *)
(***************************************************************************)
\* "Error: {e:?}" of an anyhow error: the message, then its causes
ErrorReport(chain) ==
    <<"Error: " \o chain[1]>>
        \o (IF Len(chain) > 1
            THEN <<"", "Caused by:">> \o [i \in 1..(Len(chain) - 1) |-> "    " \o chain[i + 1]]
            ELSE <<>>)

\* a main that prints the error report on standard output
main_display_error_on_stdout ==
    /\ pc = "display"
    /\ IF result.v.ok
       THEN /\ stdout' = display_result(result.v.v, format)
            /\ exit_code' = Some(0)
       ELSE /\ stdout' = [kind |-> "text", lines |-> NewLine(ErrorReport(result.v.e))]
            /\ exit_code' = Some(1)
    /\ pc' = "done"
    /\ UNCHANGED <<ipsTask, timeTask, probes, locals, result, stderr>>
    /\ Unused

\* a main that treats a warning on standard error as a failure
main_display_warnings_fail ==
    /\ pc = "display"
    /\ IF result.v.ok /\ stderr = <<>>
       THEN /\ stdout' = display_result(result.v.v, format)
            /\ exit_code' = Some(0)
            /\ UNCHANGED stderr
       ELSE /\ stderr' = Append(stderr, "Error: command failed")
            /\ exit_code' = Some(1)
            /\ UNCHANGED stdout
    /\ pc' = "done"
    /\ UNCHANGED <<ipsTask, timeTask, probes, locals, result>>
    /\ Unused

main_display ==
    /\ pc = "display"
    /\ IF result.v.ok
       THEN /\ stdout' = display_result(result.v.v, format)
            /\ exit_code' = Some(0)
            /\ UNCHANGED stderr
       ELSE /\ stderr' = stderr \o ErrorReport(result.v.e)
            /\ exit_code' = Some(1)
            /\ UNCHANGED stdout
    /\ pc' = "done"
    /\ UNCHANGED <<ipsTask, timeTask, probes, locals, result>>
    /\ Unused

Next ==
    \/ handle_date \/ handle_architecture \/ handle_ram
    \/ handle_dns \/ handle_hostname \/ handle_username \/ handle_device_name
    \/ handle_os_command \/ handle_interfaces \/ handle_disks \/ handle_cpu
    \/ handle_ips_start \/ handle_ips_public \/ handle_ips_local \/ handle_ips_any
    \/ handle_time_start \/ handle_time \/ handle_datetime
    \/ handle_everything_start \/ everything_gather_ips \/ everything_time
    \/ everything_joined \/ everything_dns \/ everything_hostname \/ everything_username
    \/ everything_device_name \/ everything_os \/ everything_interfaces
    \/ everything_disks \/ everything_cpu
    \/ main_display

Spec == Init /\ [][Next]_vars

(***************************************************************************)
(* SpecNetwork: the text projection of the snapshots of an `everything`    *)
(* run whose network probes return longer lists.  It starts where          *)
(* handle_everything has returned and takes main's display step.           *)
(***************************************************************************)
RoutableInterfaces ==
    {[name |-> "en0", ip |-> "192.168.1.42"], [name |-> "wlp0s20f3", ip |-> "10.0.0.7"]}

InitNetwork ==
    /\ clock = LocalNow
    /\ now = Some(LocalNow)
    /\ command = Command("everything", None, FALSE)
    /\ format = "Text"
    /\ pc = "display"
    /\ ipsTask = "done"
    /\ timeTask = "done"
    /\ \E public_ip \in PublicIpReturns, local_ip \in LocalIpReturns,
          servers \in DnsReturnsUpTo(MaxRows),
          ifaces \in InterfacesReturns(RoutableInterfaces, MaxRows) :
        LET ntp == [outcome |-> "synchronized", offset |-> 672]
            ips == gather_ips(public_ip, local_ip)
            dns == everything_dns_binding(servers)
            interfaces == everything_interfaces_binding(ifaces)
            bindings ==
                [ips |-> ips.value, time |-> time(LocalNow, ntp).value, dns |-> dns.value,
                 hostname |-> Some([hostname |-> "MacBook-Pro.local"]),
                 username |-> Some([username |-> "alice"]),
                 device_name |-> Some([device_name |-> "Alice's MacBook Pro"]),
                 os |-> Some([name |-> "macOS 15.2 Sequoia"]),
                 interfaces |-> interfaces.value,
                 disks |-> Some(<<>>),
                 cpu |-> Some([brand |-> "Apple M1 Pro", core_count |-> 10,
                               frequency |-> 3200])]
        IN  /\ probes = [p \in ProbeNames |->
                            CASE p = "public_ip" -> Tag(public_ip)
                              [] p = "local_ip" -> Tag(local_ip)
                              [] p = "dns" -> Tag(servers)
                              [] p = "interfaces" -> Tag(ifaces)
                              [] OTHER -> "ok"]
            /\ locals = bindings
            /\ stderr = ips.stderr \o dns.stderr \o interfaces.stderr
            /\ result = Some(Ok(CommandResult("Everything", Everything(bindings))))
    /\ stdout = NoOutput
    /\ exit_code = None
    /\ bytes = 0
    /\ formatted = None
    /\ arg = None
    /\ ret = None

NextNetwork == main_display

SpecNetwork == InitNetwork /\ [][NextNetwork]_vars

(***************************************************************************)
(* SpecFormat: human_readable_size applied to a byte count.                *)
(***************************************************************************)
ByteCounts ==
    (0..MaxSmallBytes)
        \cup ((KILO - MaxSmallBytes)..(KILO + MaxSmallBytes))
        \cup ((MEGA - MaxSmallBytes)..(MEGA + MaxSmallBytes))
        \cup {1536, GIGA - 1}

InitFormat ==
    /\ command = Command("ram", None, FALSE)
    /\ format = "Text"
    /\ pc = "execute"
    /\ ipsTask = "idle"
    /\ timeTask = "idle"
    /\ probes = [p \in ProbeNames |-> "pending"]
    /\ locals = NoLocals
    /\ stderr = <<>>
    /\ result = None
    /\ stdout = NoOutput
    /\ exit_code = None
    /\ bytes \in ByteCounts
    /\ formatted = None
    /\ arg = None
    /\ ret = None
    /\ clock = LocalNow
    /\ now = None

format_size ==
    /\ formatted = None
    /\ formatted' = Some(human_readable_size(bytes))
    /\ UNCHANGED <<command, format, pc, ipsTask, timeTask, probes, locals, stderr, result,
                   stdout, exit_code, bytes, arg, ret, clock, now>>

NextFormat == format_size

SpecFormat == InitFormat /\ [][NextFormat]_vars

(***************************************************************************)
(* SpecCalls: one call of a function on an argument of its own: the        *)
(* formatters on u64 arguments written as wide numbers, the disk           *)
(* formatter, the RAM line, list_dns_servers and the interfaces handlers.  *)
(***************************************************************************)
\* byte counts around every unit, inside every bracket, and up to u64::MAX
ByteCountsU64 ==
    {Sub(Unit(k), Wide(d)) : k \in 1..5, d \in 1..MaxDelta}
        \cup {[Unit(k) EXCEPT ![1] = d] : k \in 1..5, d \in 0..MaxDelta}
        \cup {[i \in 1..k |-> IF i = k THEN top ELSE low] \o <<whole>> :
                k \in 1..5, whole \in {1, 7, 1023},
                top \in {0, 10, 256, 512, 1013, 1023}, low \in {0, 1023}}
        \cup {Sub(TwoTo64, Wide(d)) : d \in 1..MaxDelta}
        \cup {Wide(d) : d \in 0..MaxDelta}
        \cup {Unit(6), Wide(1536)}

\* numerators and denominators: small ones, the numerators around 2^64 / 1000
\* (where a u64 product would wrap), and the largest
Numerators ==
    {Wide(n) : n \in 0..MaxDelta}
        \cup {Add(Div(TwoTo64, Wide(1000)), Wide(d)) : d \in 0..MaxDelta}
        \cup {Wide(142), Wide(1000), Wide(153008209), MulSmall(Unit(6), 8), WideU64Max}
Denominators ==
    {Wide(n) : n \in 0..MaxDelta}
        \cup {Wide(7), Wide(460), Wide(1000), Wide(494382768), MulSmall(Unit(6), 4),
              WideU64Max}

\* byte counts of a disk, as plain integers: the small ones, and those around
\* one unit and around one unit and a half
DiskByteCounts ==
    (0..MaxDelta)
        \cup {unit + d : unit \in {KILO, MEGA}, d \in (0 - MaxDelta)..MaxDelta}
        \cup {unit + unit \div 2 + d : unit \in {KILO, MEGA}, d \in (0 - MaxDelta)..MaxDelta}

\* memory readings: used around 70% and 90% of the total, on a total where a
\* tenth is one byte and on one where it is two, and the empty reading
RamReadings ==
    {[total |-> 0, used |-> 0, free |-> 0, available |-> 0]}
        \cup {[total |-> k * 1000, used |-> k * tenths + d,
                free |-> k * (1000 - tenths) - d, available |-> k * (1000 - tenths) - d] :
                k \in 1..2, tenths \in {700, 900}, d \in (0 - MaxDelta)..MaxDelta}

\* the name servers of a system configuration, in its order
Configurations == SeqsUpTo(NameServerAddrs, MaxConf)

\* what get_if_addrs reports, in its order
InterfaceLists == SeqsUpTo(InterfaceEntries, MaxIfaces)

\* clock offsets in ten-thousandths of a second: none, and on both sides of
\* zero, of half a second and of two seconds, ahead and behind
ClockOffsets ==
    {None} \cup {Some(sign * (at + d)) :
                    sign \in {-1, 1}, at \in {0, 5000, 20000}, d \in (0 - MaxDelta)..MaxDelta}

CallArguments ==
    {[fn |-> "human_readable_size", bytes |-> b] : b \in ByteCountsU64}
        \cup {[fn |-> "storage::human_readable_size", size |-> b] : b \in DiskByteCounts}
        \cup {[fn |-> "from_ratio", numerator |-> n, denominator |-> d] :
                n \in Numerators, d \in Denominators}
        \cup {[fn |-> "Ram::fmt", ram |-> r] : r \in RamReadings}
        \cup {[fn |-> "list_dns_servers", conf |-> c] : c \in Configurations}
        \cup {[fn |-> "handle_interfaces", reported |-> l, show_all |-> a] :
                l \in InterfaceLists, a \in BOOLEAN}
        \cup {[fn |-> "handle_everything", reported |-> l] : l \in InterfaceLists}
        \cup {[fn |-> "Time::fmt", clock |-> [TimeFrom(LocalNow) EXCEPT !.offset = o]] :
                o \in ClockOffsets}

InitCalls ==
    /\ command = Command("ram", None, FALSE)
    /\ format = "Text"
    /\ pc = "execute"
    /\ ipsTask = "idle"
    /\ timeTask = "idle"
    /\ probes = [p \in ProbeNames |-> "pending"]
    /\ locals = NoLocals
    /\ stderr = <<>>
    /\ result = None
    /\ stdout = NoOutput
    /\ exit_code = None
    /\ bytes = 0
    /\ formatted = None
    /\ arg \in CallArguments
    /\ ret = None
    /\ clock = LocalNow
    /\ now = None

\* the call returns v
Returns(v) ==
    /\ ret = None
    /\ ret' = Some(v)
    /\ UNCHANGED <<command, format, pc, ipsTask, timeTask, probes, locals, stderr, result,
                   stdout, exit_code, bytes, formatted, arg, clock, now>>

call_human_readable_size ==
    /\ arg.fn = "human_readable_size"
    /\ Returns(human_readable_size_u64(arg.bytes))

\* Percentage::from_ratio(numerator, denominator) and its Display
call_from_ratio ==
    /\ arg.fn = "from_ratio"
    /\ LET tenths == from_ratio_u128(arg.numerator, arg.denominator)
       IN  Returns([tenths |-> tenths, text |-> PercentageDisplay_u64(tenths)])

\* storage::human_readable_size(bytes), and format::human_readable_size(bytes)
\* beside it
call_storage_human_readable_size ==
    /\ arg.fn = "storage::human_readable_size"
    /\ Returns([disk |-> storage_human_readable_size(arg.size),
                shared |-> human_readable_size(arg.size)])

\* Display for Ram: the line, and the colour given to the used size and to
\* the percentage
call_ram_fmt ==
    /\ arg.fn = "Ram::fmt"
    /\ Returns([text |-> RamDisplay(arg.ram),
                used_colored |-> RamBand(arg.ram),
                used_percentage_colored |-> RamBand(arg.ram)])

\* network::list_dns_servers() on a configuration: the addresses it returns
call_list_dns_servers ==
    /\ arg.fn = "list_dns_servers"
    /\ Returns(nameservers(arg.conf))

\* handle_interfaces(show_all) when network::interfaces() reports arg.reported
call_handle_interfaces ==
    /\ arg.fn = "handle_interfaces"
    /\ Returns(handle_interfaces_result(Ok(arg.reported), arg.show_all))

\* the interfaces binding of handle_everything on the same report
call_everything_interfaces ==
    /\ arg.fn = "handle_everything"
    /\ Returns(everything_interfaces_binding(Ok(arg.reported)))

\* Display for Time: the lines of the text
call_time_fmt ==
    /\ arg.fn = "Time::fmt"
    /\ Returns(TimeDisplay(arg.clock))

NextCalls ==
    \/ call_ram_fmt
    \/ call_time_fmt
    \/ call_handle_interfaces
    \/ call_everything_interfaces
    \/ call_list_dns_servers
    \/ call_human_readable_size
    \/ call_storage_human_readable_size
    \/ call_from_ratio

SpecCalls == InitCalls /\ [][NextCalls]_vars

(***************************************************************************)
(* SpecClock: the commands that read the clock and then await a probe,     *)
(* while the clock passes midnight at any moment.  The synchronous probes  *)
(* of handle_everything are taken to fail: they do not read the clock.     *)
(***************************************************************************)
InitClock ==
    /\ Init
    /\ command.name \in {"date", "time", "datetime", "everything"}

\* time passes: the local clock goes over midnight
clock_tick ==
    /\ clock = LocalNow
    /\ pc # "done"
    /\ clock' = AfterMidnight
    /\ UNCHANGED <<command, format, pc, ipsTask, timeTask, probes, locals, stderr, result,
                   stdout, exit_code, bytes, formatted, arg, ret, now>>

\* one synchronous probe of handle_everything, which fails
everything_probe_fails ==
    /\ \/ everything_dns \/ everything_hostname \/ everything_username
       \/ everything_device_name \/ everything_os \/ everything_interfaces
       \/ everything_disks \/ everything_cpu
    /\ \A p \in ProbeNames \ {"public_ip", "local_ip", "ntp"} : probes'[p] # "ok"

NextClock ==
    \/ clock_tick
    \/ handle_date
    \/ handle_time_start \/ handle_time \/ handle_datetime
    \/ handle_everything_start \/ everything_gather_ips \/ everything_time
    \/ everything_joined \/ everything_probe_fails
    \/ main_display

SpecClock == InitClock /\ [][NextClock]_vars

(***************************************************************************)
(* Properties.                                                             *)
(***************************************************************************)
EverythingReturned ==
    command.name = "everything" /\ result.some /\ result.v.ok
        /\ result.v.v.variant = "Everything"

\* the snapshot handle_everything returned
Snapshot == result.v.v.value

\* the optional fields of the snapshot filled by warn_on_err, each named as its probe
OptionalFields ==
    {"dns", "hostname", "username", "device_name", "os", "interfaces", "disks", "cpu"}

\* the values a successful probe leaves in its field
FieldValues(field) ==
    CASE field = "dns" -> {r.v : r \in {x \in DnsReturnsUpTo(MaxList) : x.ok}}
      [] field = "hostname" -> {r.v : r \in {x \in HostnameReturns : x.ok}}
      [] field = "username" -> {r.v : r \in {x \in UsernameReturns : x.ok}}
      [] field = "device_name" -> {r.v : r \in {x \in DeviceNameReturns : x.ok}}
      [] field = "os" -> {r.v : r \in {x \in OsReturns : x.ok}}
      [] field = "interfaces" ->
            {retain_default_visible(r.v) : r \in {x \in InterfacesReturnsUpTo(MaxList) : x.ok}}
      [] field = "disks" -> {r.v : r \in {x \in DisksReturnsUpTo(MaxList) : x.ok}}
      [] field = "cpu" -> {r.v : r \in {x \in CpuReturns : x.ok}}

\* C1: in the snapshot handle_everything returns, each optional field is present
\* if and only if its probe succeeded, ips is absent if and only if both IP
\* probes failed, and a present field holds a value its probe returned, never
\* a placeholder.
C1_FieldPresentIffProbeSucceeded ==
    EverythingReturned =>
        /\ \A f \in OptionalFields :
            /\ probes[f] \in {"ok", "err"}
            /\ Snapshot[f].some <=> probes[f] = "ok"
            /\ Snapshot[f].some => Snapshot[f].v \in FieldValues(f)
        /\ ~Snapshot.ips.some <=> (probes["public_ip"] = "err" /\ probes["local_ip"] = "err")
        /\ Snapshot.ips.some =>
            /\ Snapshot.ips.v # <<>>
            /\ \A i \in 1..Len(Snapshot.ips.v) :
                \/ /\ Snapshot.ips.v[i].category = "Public"
                   /\ Ok(Snapshot.ips.v[i].address) \in PublicIpReturns
                   /\ probes["public_ip"] = "ok"
                \/ /\ Snapshot.ips.v[i].category = "Local"
                   /\ Ok(Snapshot.ips.v[i].address) \in LocalIpReturns
                   /\ probes["local_ip"] = "ok"

\* a snapshot with absent fields (both IP probes and the dns probe failed), a
\* present field and a field present with an empty list
C1_Witness ==
    /\ EverythingReturned
    /\ ~Snapshot.ips.some /\ ~Snapshot.dns.some /\ ~Snapshot.cpu.some
    /\ Snapshot.hostname.some
    /\ Snapshot.interfaces = Some(<<>>)
    /\ probes["interfaces"] = "ok" /\ probes["dns"] = "err"

\* C2: the everything command never fails because of a probe: whatever the
\* probes return, handle_everything returns a snapshot whose date, time,
\* architecture and ram are those of the local machine, and the process
\* prints it and exits 0.
C2_EverythingNeverFails ==
    command.name = "everything" =>
        /\ result.some =>
            /\ EverythingReturned
            /\ Snapshot.date = DateFrom(LocalNow)
            /\ Snapshot.time.hour = LocalNow.hour
            /\ Snapshot.time.minute = LocalNow.minute
            /\ Snapshot.time.second = LocalNow.second
            /\ Snapshot.time.timezone = LocalNow.timezone
            /\ Snapshot.architecture = architecture
            /\ Snapshot.ram = ram
        /\ exit_code.some => exit_code = Some(0)
        /\ pc = "done" =>
            /\ exit_code = Some(0)
            /\ stdout.kind = IF format = "Json" THEN "json" ELSE "text"
            /\ stdout.kind = "json" =>
                \A key \in {"date", "time", "architecture", "ram"} : HasKey(stdout.doc, key)

\* every fallible probe failed and the NTP query timed out, and the process
\* has exited 0
C2_Witness ==
    /\ command.name = "everything" /\ pc = "done" /\ exit_code = Some(0)
    /\ probes["ntp"] = "timeout"
    /\ \A p \in ProbeNames \ {"ntp"} : probes[p] = "err"

IpsAny == command.name = "ips" /\ command.only \in {None, Some("Any")}

\* C3: ips with category any or unset exits 0 if and only if at least one of
\* the two IP probes succeeded and exits 1 only when both failed; on success the
\* result holds exactly one entry per successful probe, tagged with its category.
C3_IpsAnyBestEffort ==
    (IpsAny /\ result.some) =>
        LET succeeded == {p \in {"public_ip", "local_ip"} : probes[p] = "ok"}
            category(p) == IF p = "public_ip" THEN "Public" ELSE "Local"
        IN  /\ probes["public_ip"] \in {"ok", "err"} /\ probes["local_ip"] \in {"ok", "err"}
            /\ result.v.ok <=> succeeded # {}
            /\ exit_code.some => (exit_code = Some(0) <=> succeeded # {})
            /\ exit_code.some => (exit_code = Some(1) <=> succeeded = {})
            /\ pc = "done" => exit_code.some
            /\ result.v.ok =>
                /\ result.v.v.variant = "Ips"
                /\ Len(result.v.v.value) = Cardinality(succeeded)
                /\ \A p \in {"public_ip", "local_ip"} :
                    Cardinality({i \in 1..Len(result.v.v.value) :
                                   result.v.v.value[i].category = category(p)})
                        = IF p \in succeeded THEN 1 ELSE 0

\* only the local probe succeeded: exit 0 and exactly one entry, tagged local
C3_Witness ==
    /\ IpsAny /\ pc = "done" /\ exit_code = Some(0)
    /\ probes["public_ip"] = "err" /\ probes["local_ip"] = "ok"
    /\ result.v.v.value = <<Ip("Local", "192.168.1.42")>>

StrictFailed ==
    /\ \/ command.name = "ips" /\ command.only \in {Some("Public"), Some("Local")}
       \/ command.name \in {"dns", "hostname", "username", "device-name", "os",
                            "interfaces", "disks", "cpu"}
    /\ result.some /\ ~result.v.ok

\* the words by which a context message names the operation of the command
OperationWords ==
    CASE command.name = "ips" /\ command.only = Some("Public") -> {"public ip"}
      [] command.name = "ips" /\ command.only = Some("Local") -> {"local ip"}
      [] command.name = "dns" -> {"dns"}
      [] command.name = "hostname" -> {"hostname"}
      [] command.name = "username" -> {"username"}
      [] command.name = "device-name" -> {"device name", "device-name", "devicename"}
      [] command.name = "os" -> {"os", "operating system"}
      [] command.name = "interfaces" -> {"interfaces"}
      [] command.name = "disks" -> {"disks"}
      [] command.name = "cpu" -> {"cpu"}

\* C4: when the probe of a strict single-probe command fails, the error the
\* handler returns is the probe's error wrapped in a context message that
\* names the failed operation (for ips --only public it mentions "public ip").
C4_StrictErrorHasContext ==
    StrictFailed =>
        /\ Len(result.v.e) >= 2
        /\ \E w \in OperationWords : Mentions(result.v.e[1], w)

\* the warnings on standard error
Warnings == SelectSeq(stderr, LAMBDA line : IsPrefix("warning: ", line))

\* the warning a failed probe is reported by begins with
WarningOf(probe) ==
    CASE probe = "public_ip" -> {"warning: could not determine public IP: "}
      [] probe = "local_ip" -> {"warning: could not determine local IP: "}
      [] probe = "ntp" -> {"warning: could not sync with NTP server: ",
                           "warning: NTP query timed out"}
      [] probe = "dns" -> {"warning: could not determine dns servers: "}
      [] probe = "hostname" -> {"warning: could not determine hostname: "}
      [] probe = "username" -> {"warning: could not determine username: "}
      [] probe = "device_name" -> {"warning: could not determine device name: "}
      [] probe = "os" -> {"warning: could not determine os: "}
      [] probe = "interfaces" -> {"warning: could not determine network interfaces: "}
      [] probe = "disks" -> {"warning: could not determine disks: "}
      [] probe = "cpu" -> {"warning: could not determine cpu: "}

WarningsOf(probe) ==
    Cardinality({i \in 1..Len(Warnings) : \E w \in WarningOf(probe) : IsPrefix(w, Warnings[i])})

BestEffortMode == command.name = "everything" \/ IpsAny

\* C5: in best-effort mode (ips any, everything) a probe that failed has put
\* exactly one warning naming its category on standard error and a probe that
\* succeeded or has not run has put none, whatever the exit code; there is no
\* other warning.
C5_OneWarningPerFailedProbe ==
    BestEffortMode =>
        /\ \A p \in ProbeNames :
            WarningsOf(p) = IF probes[p] \in {"err", "timeout"} THEN 1 ELSE 0
        /\ Len(Warnings) = Cardinality({p \in ProbeNames : probes[p] \in {"err", "timeout"}})

\* every probe of the snapshot failed and the command exited 0
C5_Witness ==
    /\ command.name = "everything" /\ pc = "done" /\ exit_code = Some(0)
    /\ \A p \in ProbeNames : probes[p] = "err"
    /\ Len(Warnings) = 11

PrintedSnapshot == EverythingReturned /\ stdout.kind = "json"

\* C6: in the JSON document printed for a snapshot, the key of an optional
\* field (ips, dns, hostname, username, device_name, os, interfaces, disks, cpu)
\* is emitted if and only if the field is present, the time's offset likewise,
\* and no member is null.
C6_JsonOmitsAbsentFields ==
    PrintedSnapshot =>
        /\ \A f \in OptionalFields \cup {"ips"} : HasKey(stdout.doc, f) <=> Snapshot[f].some
        /\ HasKey(stdout.doc, "time")
        /\ HasKey(ValueOf(stdout.doc, "time"), "offset") <=> Snapshot.time.offset.some
        /\ \A i \in 1..Len(stdout.doc.members) : stdout.doc.members[i].v.t # "null"
        /\ LET t == ValueOf(stdout.doc, "time")
           IN  \A i \in 1..Len(t.members) : t.members[i].v.t # "null"

\* a printed snapshot without ips, without cpu and without the time's offset
C6_Witness ==
    /\ PrintedSnapshot
    /\ ~Snapshot.ips.some /\ ~Snapshot.cpu.some /\ ~Snapshot.time.offset.some
    /\ Snapshot.hostname.some
    /\ ~HasKey(stdout.doc, "ips") /\ HasKey(stdout.doc, "hostname")

\* the snapshot printed as text
PrintedText == EverythingReturned /\ stdout.kind = "text"

RowLabels ==
    {"hostname", "username", "device-name", "os", "architecture", "cpu", "ram",
     "date", "time", "disks", "ips", "dns", "interfaces"}

IsHeaderLine(line) == Len(line) >= 2 /\ SubSeq(line, 1, 1) = " " /\ SubSeq(line, 2, 2) # " "
IsLabelledBy(line, label) == IsPrefix("  " \o PadLeftAligned(label, LABEL_WIDTH), line)
IsContinuationLine(line) == IsPrefix(Spaces(2 + LABEL_WIDTH), line)

\* what a printed line starts: a section (its title), a field (its label),
\* nothing (a blank line, or a further line of the field above)
LineKey(line) ==
    IF line = "" \/ IsContinuationLine(line) THEN ""
    ELSE IF IsHeaderLine(line) THEN SubSeq(line, 2, Len(line))
    ELSE IF \E label \in RowLabels : IsLabelledBy(line, label)
         THEN CHOOSE label \in RowLabels : IsLabelledBy(line, label)
    ELSE "?"

\* the titles and labels of the printed text, in the order printed
PrintedKeys ==
    SelectSeq([i \in 1..Len(stdout.lines) |-> LineKey(stdout.lines[i])], LAMBDA k : k # "")

IfPresent(opt, label) == IF opt.some THEN <<label>> ELSE <<>>
IfRows(opt, label) == IF opt.some /\ opt.v # <<>> THEN <<label>> ELSE <<>>

NetworkLines ==
    LET header == CHOOSE i \in 1..Len(stdout.lines) : stdout.lines[i] = " NETWORK"
    IN  SubSeq(stdout.lines, header + 1, Len(stdout.lines) - 2)

ListOf(opt) == IF opt.some THEN opt.v ELSE <<>>

\* the (group, sub-label, value) triples of a snapshot in collection order
CollectedRows ==
    [i \in 1..Len(ListOf(Snapshot.ips)) |->
        [group |-> "ips",
         label |-> IF Snapshot.ips.v[i].category = "Public" THEN "public" ELSE "local",
         value |-> Snapshot.ips.v[i].address]]
  \o [i \in 1..Len(ListOf(Snapshot.dns)) |->
        [group |-> "dns",
         label |-> "server " \o ToString(Snapshot.dns.v[i].order),
         value |-> Snapshot.dns.v[i].address]]
  \o [i \in 1..Len(ListOf(Snapshot.interfaces)) |->
        [group |-> "interfaces",
         label |-> Snapshot.interfaces.v[i].name,
         value |-> Snapshot.interfaces.v[i].ip]]

LongestSubLabel == Max({Len(CollectedRows[i].label) : i \in 1..Len(CollectedRows)} \cup {0})

\* every network line holds its row's sub-label in a column of the given width
\* that begins after the group-name column, and its value right after it
SubLabelColumnIs(width) ==
    /\ Len(NetworkLines) = Len(CollectedRows)
    /\ \A i \in 1..Len(CollectedRows) :
        LET line == NetworkLines[i]
            row == CollectedRows[i]
            start == 2 + LABEL_WIDTH
        IN  /\ Len(line) = start + width + Len(row.value)
            /\ SubSeq(line, start + 1, start + Len(row.label)) = row.label
            /\ SubSeq(line, start + Len(row.label) + 1, start + width)
                   = Spaces(width - Len(row.label))
            /\ SubSeq(line, start + width + 1, Len(line)) = row.value

\* C8 as stated: in the Network section of the snapshot text the sub-label
\* column of every row is as wide as the longest sub-label of all collected
\* rows of the three groups.
C8_WidthIsLongestSubLabel ==
    PrintedText => SubLabelColumnIs(LongestSubLabel)

\* C8, amended: in the Network section of the snapshot text the sub-label
\* column of every row is one wider than the longest sub-label of all collected
\* rows of the three groups (not of the row's own group), so that a space
\* separates the longest sub-label from its value.
C8_WidthIsLongestSubLabelPlusOne ==
    PrintedText => SubLabelColumnIs(LongestSubLabel + 1)

\* a printed Network section whose longest sub-label is outside the first group
C8_Witness ==
    /\ PrintedText /\ pc = "done"
    /\ Len(CollectedRows) >= 3
    /\ CollectedRows[1].group = "ips"
    /\ \A i \in 1..Len(CollectedRows) :
        CollectedRows[i].group = "ips" => Len(CollectedRows[i].label) < LongestSubLabel
    /\ \E i \in 1..Len(CollectedRows) :
        /\ CollectedRows[i].group = "interfaces"
        /\ Len(CollectedRows[i].label) = LongestSubLabel

FirstOfGroup(i) == i = 1 \/ CollectedRows[i - 1].group # CollectedRows[i].group

\* C9: the Network section prints one line per collected row in collection
\* order (the ips rows, then the dns rows, then the interfaces rows, each in
\* list order); the name of a group with at least one row is printed exactly
\* once, on the group's first row, and every other row of the group is
\* indented in its place.
C9_RowsInOrderGroupNameOnce ==
    PrintedText =>
        /\ Len(NetworkLines) = Len(CollectedRows)
        /\ \A i \in 1..Len(CollectedRows) :
            LET line == NetworkLines[i]
                row == CollectedRows[i]
            IN  /\ IF FirstOfGroup(i)
                   THEN IsPrefix("  " \o PadLeftAligned(row.group, LABEL_WIDTH) \o row.label, line)
                   ELSE IsPrefix(Spaces(2 + LABEL_WIDTH) \o row.label, line)
                /\ Len(line) >= Len(row.value)
                /\ SubSeq(line, Len(line) - Len(row.value) + 1, Len(line)) = row.value
        /\ \A group \in {"ips", "dns", "interfaces"} :
            Cardinality({i \in 1..Len(NetworkLines) : IsLabelledBy(NetworkLines[i], group)})
                = IF \E i \in 1..Len(CollectedRows) : CollectedRows[i].group = group
                  THEN 1 ELSE 0

\* a printed Network section with two rows in each of the three groups
C9_Witness ==
    /\ PrintedText /\ pc = "done"
    /\ Len(ListOf(Snapshot.ips)) = 2
    /\ Len(ListOf(Snapshot.dns)) = 2
    /\ Len(ListOf(Snapshot.interfaces)) = 2
    /\ Len(NetworkLines) = 6

UnitIndex(b) == CHOOSE k \in 1..5 : ~Less(b, Unit(k)) /\ (k = 5 \/ Less(b, Unit(k + 1)))
UnitSuffix(k) == <<"KiB", "MiB", "GiB", "TiB", "PiB">>[k]
\* b div 1024^k and b mod 1024^k, read off the digits of b
WholePart(b, k) == SubSeq(b, k + 1, Len(b))
RemainderPart(b, k) == Trim(SubSeq(b, 1, k))
\* ((b mod 1024^k) * 100) div 1024^k: the f with f * 1024^k <= (b mod 1024^k) * 100 < (f + 1) * 1024^k
FractionalPart(b, k) ==
    CHOOSE f \in 0..99 :
        /\ ~Less(MulSmall(RemainderPart(b, k), 100), MulSmall(Unit(k), f))
        /\ Less(MulSmall(RemainderPart(b, k), 100), MulSmall(Unit(k), f + 1))

SizeReturned == arg # None /\ arg.fn = "human_readable_size" /\ ret.some

\* C11: for a byte count b >= 1024, human_readable_size returns
\* "{whole}.{fractional:02} {suffix}" for the largest unit U of 1024^1..1024^5
\* with U <= b (KiB .. PiB), whole = b div U and fractional = ((b mod U) * 100) div U;
\* 1536 gives "1.50 KiB" and 1073741824 gives "1.00 GiB".  Where the byte count
\* is below 2^30 the formatter on plain integers returns the same text.
C11_UnitWholeAndFraction ==
    (SizeReturned /\ ~Less(arg.bytes, Unit(1))) =>
        LET b == arg.bytes
            k == UnitIndex(b)
        IN  /\ ret.v = ToString(Small(WholePart(b, k))) \o "."
                          \o Pad2(FractionalPart(b, k)) \o " " \o UnitSuffix(k)
            /\ b = Wide(1536) => ret.v = "1.50 KiB"
            /\ b = Unit(3) => ret.v = "1.00 GiB"
            /\ Len(b) <= 3 => ret.v = human_readable_size(Small(b))

\* human_readable_size has been applied to 1073741824
C11_Witness == SizeReturned /\ arg.bytes = Unit(3) /\ ret.v = "1.00 GiB"

RECURSIVE Product(_, _)
\* a * b
Product(a, b) ==
    IF b = <<>> THEN <<>> ELSE Trim(Add(MulSmall(a, Head(b)), <<0>> \o Product(a, Tail(b))))

LessOrEqual(a, b) == ~Less(b, a)

RatioReturned == arg # None /\ arg.fn = "from_ratio" /\ ret.some

\* the decimal digits of a number with a point before the last one
OneDecimal(w) ==
    LET digits == Decimal(w)
    IN  (IF Len(digits) = 1 THEN "0" ELSE SubSeq(digits, 1, Len(digits) - 1))
            \o "." \o SubSeq(digits, Len(digits), Len(digits))

\* C12: for u64 n and d, Percentage::from_ratio(n, d) has tenths = floor(n * 1000 / d)
\* when d > 0, the product taken exactly (no wraparound at 2^64), and 2^64 - 1
\* when that quotient does not fit in 64 bits; tenths = 0 when d = 0; it is
\* displayed as "{tenths div 10}.{tenths mod 10}": 1/3 is "33.3", 0/0 is "0.0".
\* On small arguments from_ratio on plain integers gives the same.
C12_TenthsOfExactQuotient ==
    RatioReturned =>
        LET n == arg.numerator
            d == arg.denominator
            t == ret.v.tenths
            exact == MulSmall(n, 1000)
        IN  /\ d = <<>> => t = <<>>
            /\ (d # <<>> /\ Less(exact, Product(TwoTo64, d))) =>
                /\ LessOrEqual(Product(t, d), exact)
                /\ Less(exact, Product(Add(t, Wide(1)), d))
            /\ (d # <<>> /\ ~Less(exact, Product(TwoTo64, d))) => t = WideU64Max
            /\ Less(t, TwoTo64)
            /\ ret.v.text = OneDecimal(t)
            /\ (n = Wide(1) /\ d = Wide(3)) => ret.v.text = "33.3"
            /\ (n = <<>> /\ d = <<>>) => ret.v.text = "0.0"
            /\ (Len(n) <= 2 /\ Len(d) <= 2) =>
                /\ Small(t) = from_ratio(Small(n), Small(d))
                /\ ret.v.text = PercentageDisplay(Small(t))

\* a ratio whose product passes 2^64 and whose quotient does not fit in 64 bits
C12_Witness ==
    /\ RatioReturned
    /\ arg.numerator = MulSmall(Unit(6), 8) /\ arg.denominator = Wide(1)
    /\ ret.v.tenths = WideU64Max
    /\ ret.v.text = "1844674407370955161.5"

\* C13: the time probe never fails the command: once the NTP query has
\* returned or its deadline has passed, the Time that datetime::time returned
\* has the hour, minute, second and timezone of the local clock, its offset is
\* present if and only if the synchronization succeeded (and is then the
\* offset measured), and on an NTP error or a timeout it is the local time
\* without offset; time and datetime return it and exit 0, the snapshot holds it.
C13_TimeDegradesToLocalClock ==
    probes["ntp"] # "pending" =>
        LET t == locals.time
        IN  /\ command.name \in {"time", "datetime", "everything"}
            /\ t.hour = LocalNow.hour /\ t.minute = LocalNow.minute
            /\ t.second = LocalNow.second /\ t.timezone = LocalNow.timezone
            /\ t.offset.some <=> probes["ntp"] = "ok"
            /\ t.offset.some => \E ntp \in NtpReturns :
                    ntp.outcome = "synchronized" /\ t.offset.v = ntp.offset
            /\ probes["ntp"] \in {"err", "timeout"} => t = TimeFrom(LocalNow)
            /\ command.name = "time" => result = Some(Ok(CommandResult("Time", t)))
            /\ command.name = "datetime" =>
                result = Some(Ok(CommandResult("Datetime", [date |-> date(LocalNow), time |-> t])))
            /\ EverythingReturned => Snapshot.time = t
            /\ exit_code.some => exit_code = Some(0)

\* the time command after the NTP query timed out: the local time without
\* offset has been printed and the process has exited 0
C13_Witness ==
    /\ command.name = "time" /\ pc = "done" /\ exit_code = Some(0)
    /\ probes["ntp"] = "timeout"
    /\ result.v.v.value = TimeFrom(LocalNow)

DiskSizeReturned == arg # None /\ arg.fn = "storage::human_readable_size" /\ ret.some

\* C14: for every byte count, the formatter that renders a disk
\* (storage::human_readable_size) returns the same string as the shared
\* integer formatter (format::human_readable_size).
C14_DiskFormatterIsSharedFormatter ==
    DiskSizeReturned => ret.v.disk = ret.v.shared

IsSuffix(p, s) == Len(p) <= Len(s) /\ SubSeq(s, Len(s) - Len(p) + 1, Len(s)) = p

DisksPrinted ==
    command.name = "disks" /\ pc = "done" /\ exit_code = Some(0) /\ stdout.kind = "text"

\* the closing bracket of a disk's line as the help text shows it: the
\* one-decimal rendering of Percentage::from_ratio(free_space, total_space)
FreeBracket(disk) ==
    " (" \o PercentageDisplay(from_ratio(disk.free_space, disk.total_space)) \o "% free)"

\* C15: every disk line of the text output ends with the free-space
\* percentage printed with one decimal digit, equal to the rendering of
\* Percentage::from_ratio(free_space, total_space); a disk of total_space 0
\* prints 0.0.
C15_DiskLineHasOneDecimalPercentage ==
    DisksPrinted =>
        \A i \in 1..Len(result.v.v.value) :
            IsSuffix(FreeBracket(result.v.v.value[i]), stdout.lines[i])

RamFormatted == arg # None /\ arg.fn = "Ram::fmt" /\ ret.some

\* the band of a percentage given in tenths
BandOfTenths(t) ==
    IF t > 900 THEN "critical" ELSE IF t > 700 THEN "warning" ELSE "nominal"
BandColour(band) ==
    CASE band = "critical" -> "red" [] band = "warning" -> "yellow" [] band = "nominal" -> "green"

\* C16: the RAM line's band is derived from the very tenths it prints: above
\* 900 tenths critical (red), above 700 and up to 900 warning (yellow), up to
\* 700 nominal (green); the used size and the percentage get the same band.
C16_RamBandFromPrintedTenths ==
    RamFormatted =>
        \E t \in 0..1000 :
            /\ IsSuffix(" in use (" \o ToString(t \div 10) \o "." \o ToString(t % 10) \o "%)",
                        ret.v.text)
            /\ ret.v.used_percentage_colored = BandColour(BandOfTenths(t))
            /\ ret.v.used_colored = ret.v.used_percentage_colored

\* 1401 of 2000 bytes is more than 70% but prints 70.0, and stays nominal;
\* 900 of 1000 prints 90.0, and is a warning
C16_Witness ==
    /\ RamFormatted
    /\ \/ arg.ram.total = 2000 /\ arg.ram.used = 1401
          /\ ret.v.used_colored = "green" /\ IsSuffix("(70.0%)", ret.v.text)
       \/ arg.ram.total = 1000 /\ arg.ram.used = 900
          /\ ret.v.used_colored = "yellow" /\ IsSuffix("(90.0%)", ret.v.text)

JsonPrinted ==
    pc = "done" /\ exit_code = Some(0) /\ stdout.kind = "json" /\ command.name # "everything"

ListCommands == {"ips", "dns", "interfaces", "disks"}

\* the one key of a list command's document
CollectionKey(name) ==
    CASE name = "ips" -> "ips"
      [] name = "dns" -> "dns_servers"
      [] name = "interfaces" -> "interfaces"
      [] name = "disks" -> "disks"

\* the document of one element of a list command's collection
ElementSerialize(name, element) ==
    CASE name = "ips" -> IpSerialize(element)
      [] name = "dns" -> DnsServerSerialize(element)
      [] name = "interfaces" -> InterfaceSerialize(element)
      [] name = "disks" -> DiskInfoSerialize(element)

DateFields == <<"day_name", "day_number", "month_name", "year", "week_number">>
TimeFields == <<"hour", "minute", "second", "timezone">>

\* the field names of a scalar command's value, without the optional offset
OwnFields(name) ==
    CASE name = "date" -> DateFields
      [] name = "time" -> TimeFields
      [] name = "datetime" -> DateFields \o TimeFields
      [] name = "hostname" -> <<"hostname">>
      [] name = "username" -> <<"username">>
      [] name = "device-name" -> <<"device_name">>
      [] name = "os" -> <<"name">>
      [] name = "architecture" -> <<"architecture">>
      [] name = "cpu" -> <<"brand", "core_count", "frequency">>
      [] name = "ram" ->
            <<"total_ram_bytes", "used_ram_bytes", "free_ram_bytes", "available_ram_bytes">>

\* C17: the top-level keys of the JSON document depend on the variant only:
\* a list command emits exactly one key (ips, dns_servers, interfaces or disks)
\* whose value is the array of the collected elements in their order, never a
\* bare array; a scalar command emits exactly the value's own field names, with
\* no wrapping or tag key, and datetime emits the date fields then the time
\* fields at the top level.
C17_TopLevelKeysByVariant ==
    JsonPrinted =>
        LET doc == stdout.doc
            value == result.v.v.value
        IN  /\ doc.t = "object"
            /\ IF command.name \in ListCommands
               THEN /\ Keys(doc) = <<CollectionKey(command.name)>>
                    /\ doc.members[1].v.t = "array"
                    /\ doc.members[1].v.items =
                            [i \in 1..Len(value) |-> ElementSerialize(command.name, value[i])]
               ELSE \/ Keys(doc) = OwnFields(command.name)
                    \/ /\ command.name \in {"time", "datetime"}
                       /\ IF command.name = "time" THEN value.offset.some
                          ELSE value.time.offset.some
                       /\ Keys(doc) = OwnFields(command.name) \o <<"offset">>

\* a datetime document with the clock offset, and a list document of one disk
C17_Witness ==
    /\ JsonPrinted
    /\ \/ command.name = "datetime" /\ HasKey(stdout.doc, "year")
          /\ HasKey(stdout.doc, "hour") /\ HasKey(stdout.doc, "offset")
       \/ command.name = "disks" /\ Len(stdout.doc.members[1].v.items) = 1

\* a step in which probe p returns while probe q has still not returned
ReturnsBefore(p, q) == Next /\ probes'[p] # "pending" /\ probes'[q] = "pending"

\* p does not wait for q: as long as neither has returned, p can return first
StartsWithoutWaiting(p, q) ==
    (probes[p] = "pending" /\ probes[q] = "pending") => ENABLED ReturnsBefore(p, q)

GatherIpsRunning ==
    /\ ipsTask = "waiting"
    /\ command.name = "everything" \/ (command.name = "ips" /\ command.only # Some("Public"))

EverythingRunning == command.name = "everything" /\ pc \notin {"execute", "display", "done"}

\* C18: the independent probes are launched in parallel and joined: while
\* gather_ips runs, the local-IP probe does not wait for the public-IP probe
\* to complete, and while handle_everything runs no probe waits for the
\* completion of another probe.
C18_ProbesStartWithoutWaiting ==
    /\ GatherIpsRunning => StartsWithoutWaiting("local_ip", "public_ip")
    /\ EverythingRunning =>
            \A p \in ProbeNames : \A q \in ProbeNames \ {p} : StartsWithoutWaiting(p, q)

\* the two futures of tokio::join! do run independently of each other
JoinedFuturesAreIndependent ==
    EverythingRunning =>
        /\ StartsWithoutWaiting("ntp", "public_ip")
        /\ StartsWithoutWaiting("public_ip", "ntp")

DnsListed == arg # None /\ arg.fn = "list_dns_servers" /\ ret.some

\* the configured addresses, without their ports
Configured == [i \in 1..Len(arg.conf) |-> BeforeColon(arg.conf[i])]

RECURSIVE FirstOccurrences(_)
\* the elements of v, each once, at the place of its first occurrence
FirstOccurrences(v) ==
    IF v = <<>> THEN <<>>
    ELSE LET init == FirstOccurrences(SubSeq(v, 1, Len(v) - 1))
             last == v[Len(v)]
         IN  IF \E i \in 1..Len(init) : init[i] = last THEN init ELSE Append(init, last)

\* C19: list_dns_servers returns each distinct configured address exactly
\* once, keeping its first occurrence and the configuration's order, also when
\* the duplicates are not adjacent.
C19_EachAddressOnceInOrder ==
    DnsListed => ret.v = FirstOccurrences(Configured)

InterfacesHandled == arg # None /\ arg.fn = "handle_interfaces" /\ ret.some
EverythingInterfacesBound == arg # None /\ arg.fn = "handle_everything" /\ ret.some

\* the default-visibility filter as the help text states it: loopback
\* (127.0.0.1, ::1) and link-local (169.254.x.x, fe80::...) entries are hidden
Hidden(iface) ==
    \/ iface.ip = "::1"
    \/ \E prefix \in {"127.", "169.254.", "fe80:"} : IsPrefix(prefix, iface.ip)

RECURSIVE VisibleOf(_)
\* the entries that are not hidden, in the order of the report
VisibleOf(reported) ==
    IF reported = <<>> THEN <<>>
    ELSE (IF Hidden(Head(reported)) THEN <<>> ELSE <<Head(reported)>>)
            \o VisibleOf(Tail(reported))

\* C20: interfaces --all returns every reported entry unchanged and in order;
\* without --all it returns the order-preserving subsequence of the entries
\* that pass the default-visibility filter; the everything snapshot always
\* applies the filter.
C20_InterfacesFilteredUnlessAll ==
    /\ InterfacesHandled =>
            /\ ret.v.ok /\ ret.v.v.variant = "Interfaces"
            /\ ret.v.v.value = IF arg.show_all THEN arg.reported ELSE VisibleOf(arg.reported)
    /\ EverythingInterfacesBound =>
            /\ ret.v.stderr = <<>>
            /\ ret.v.value = Some(VisibleOf(arg.reported))

\* a report of three entries of which the middle one alone is visible, listed
\* whole with --all
C20_Witness ==
    /\ InterfacesHandled /\ arg.show_all
    /\ Len(arg.reported) = 3 /\ VisibleOf(arg.reported) = <<arg.reported[2]>>
    /\ ret.v.v.value = arg.reported

\* the same kind of report without --all, and in the snapshot
C20_FilteredReachable ==
    /\ InterfacesHandled \/ EverythingInterfacesBound
    /\ Len(arg.reported) = 3 /\ Len(VisibleOf(arg.reported)) = 2
    /\ Hidden(arg.reported[2])
    /\ \/ InterfacesHandled /\ ~arg.show_all
             /\ ret.v.v.value = <<arg.reported[1], arg.reported[3]>>
       \/ EverythingInterfacesBound
             /\ ret.v.value.v = <<arg.reported[1], arg.reported[3]>>

CpuPrinted ==
    command.name = "cpu" /\ pc = "done" /\ exit_code = Some(0) /\ stdout.kind = "text"

\* a count of thousandths as a decimal number: 3200 is "3.2", 3000 is "3"
Thousandths(n) ==
    LET whole == ToString(n \div 1000)
        f == n % 1000
    IN  IF f = 0 THEN whole
        ELSE IF f % 100 = 0 THEN whole \o "." \o ToString(f \div 100)
        ELSE IF f % 10 = 0 THEN whole \o "." \o Pad2(f \div 10)
        ELSE whole \o "." \o (IF f < 100 THEN "0" ELSE "") \o Pad2(f)

\* C21: the cpu text line reports the frequency in GHz with its fractional
\* part: a CPU of 3200 MHz is rendered "... running at 3.2 GHz".
C21_FrequencyKeepsFraction ==
    CpuPrinted =>
        IsSuffix(" running at " \o Thousandths(result.v.v.value.frequency) \o " GHz",
                 stdout.lines[1])

\* the probe on which a strict command rests
StrictProbe ==
    CASE command.name = "ips" /\ command.only = Some("Public") -> "public_ip"
      [] command.name = "ips" /\ command.only = Some("Local") -> "local_ip"
      [] command.name = "device-name" -> "device_name"
      [] OTHER -> command.name

StrictProbeFailed ==
    /\ \/ command.name = "ips" /\ command.only \in {Some("Public"), Some("Local")}
       \/ command.name \in {"dns", "hostname", "username", "device-name", "os",
                            "interfaces", "disks", "cpu"}
    /\ probes[StrictProbe] = "err"

\* C22: when the probe of a strict command fails, no CommandResult is built
\* (the handler returns the error), nothing is ever written on standard
\* output, and the command terminates with exit code 1.
C22_StrictFailureSkipsRenderer ==
    StrictProbeFailed =>
        /\ result.some /\ ~result.v.ok
        /\ stdout = NoOutput
        /\ pc \in {"display", "done"}
        /\ exit_code = IF pc = "done" THEN Some(1) ELSE None

\* `my disks --format json` terminated after the disk listing failed
C22_Witness ==
    /\ command.name = "disks" /\ format = "Json" /\ probes["disks"] = "err"
    /\ pc = "done" /\ exit_code = Some(1) /\ stdout = NoOutput /\ stderr # <<>>

TimeFormatted == arg # None /\ arg.fn = "Time::fmt" /\ ret.some

\* the band of a magnitude in ten-thousandths of a second
BandLabel(magnitude) ==
    CASE magnitude < 5000 -> "in sync"
      [] magnitude >= 5000 /\ magnitude < 20000 -> "slightly off"
      [] magnitude >= 20000 -> "significantly off"

EverythingPastJoin ==
    command.name = "everything" /\ pc \notin {"execute", "join"}

\* the ips and time fields are those the probe outcomes give, whichever of the
\* two tasks completed first
JoinedFieldsFromOutcomes ==
    \E public_ip \in PublicIpReturns, local_ip \in LocalIpReturns, ntp \in NtpReturns :
        /\ Tag(public_ip) = probes["public_ip"]
        /\ Tag(local_ip) = probes["local_ip"]
        /\ NtpTag(ntp) = probes["ntp"]
        /\ locals.ips = gather_ips(public_ip, local_ip).value
        /\ locals.time = time(LocalNow, ntp).value

Rendering == pc \in {"display", "done"}

\* C24: whatever the interleaving of the joined IP task and NTP task in
\* handle_everything, the snapshot is assembled only after both have
\* completed, its ips and time fields depend on the probe outcomes only, and
\* no probe is started once the rendering of the result has begun.
C24_JoinedBeforeSnapshotQuietAfter ==
    /\ [](EverythingPastJoin =>
            /\ ipsTask = "done" /\ timeTask = "done"
            /\ JoinedFieldsFromOutcomes
            /\ result.some =>
                    /\ Snapshot.ips = locals.ips /\ Snapshot.time = locals.time
                    /\ \A p \in ProbeNames : probes[p] # "pending")
    /\ [][Rendering => (probes' = probes /\ ipsTask' = ipsTask /\ timeTask' = timeTask
                            /\ locals' = locals /\ result' = result)]_vars

\* a rendered snapshot whose public-IP probe failed and whose NTP query answered
C24_Witness ==
    /\ EverythingReturned /\ pc = "done"
    /\ probes["public_ip"] = "err" /\ probes["ntp"] = "ok"
    /\ Snapshot.ips = Some(<<Ip("Local", "192.168.1.42")>>) /\ Snapshot.time.offset.some

\* both orders of completion happen
IpsTaskFirst == command.name = "everything" /\ ipsTask = "done" /\ timeTask = "waiting"
TimeTaskFirst == command.name = "everything" /\ ipsTask = "waiting" /\ timeTask = "done"

\* the IP lists a returned result carries
CarriedIpLists ==
    IF ~(result.some /\ result.v.ok) THEN {}
    ELSE IF result.v.v.variant = "Ips" THEN {result.v.v.value}
    ELSE IF result.v.v.variant = "Everything" /\ result.v.v.value.ips.some
         THEN {result.v.v.value.ips.v}
    ELSE {}

\* C25: every IP list a result carries (the ips command in any mode, the ips
\* field of a snapshot when present) is non-empty, has at most two entries and
\* at most one per category, lists public before local, and has no entry of
\* category Any.
C25_IpListShape ==
    \A ips \in CarriedIpLists :
        /\ Len(ips) \in 1..2
        /\ \A i \in 1..Len(ips) : ips[i].category \in {"Public", "Local"}
        /\ Len(ips) = 2 => (ips[1].category = "Public" /\ ips[2].category = "Local")

\* `my ips` with both probes answered, and a snapshot holding the local address only
C25_Witness ==
    \/ /\ command.name = "ips" /\ command.only \in {None, Some("Any")}
       /\ result.some /\ result.v.ok /\ Len(result.v.v.value) = 2
    \/ /\ EverythingReturned /\ Snapshot.ips.some /\ Len(Snapshot.ips.v) = 1
       /\ Snapshot.ips.v[1].category = "Local"

ListFields == {"disks", "ips", "dns", "interfaces"}

EverythingRendered == EverythingReturned /\ pc = "done"

\* the two projections of the returned snapshot: the one that was printed,
\* and the other one of the same snapshot
TextProjection ==
    IF stdout.kind = "text" THEN stdout.lines ELSE NewLine(EverythingDisplay(Snapshot))
JsonProjection ==
    IF stdout.kind = "json" THEN stdout.doc ELSE EverythingSerialize(Snapshot)

TextShows(field) ==
    \E i \in 1..Len(TextProjection) : IsLabelledBy(TextProjection[i], field)

\* C26: the text and the JSON projection of a snapshot agree on the list
\* fields they show: for each of disks, ips, dns and interfaces, the text
\* prints at least one row for the field exactly when the JSON document has
\* the field's key, also when the probe succeeded with an empty list.
C26_ProjectionsShowSameListFields ==
    EverythingRendered =>
        \A field \in ListFields : TextShows(field) <=> HasKey(JsonProjection, field)

ClockReadings == {LocalNow, AfterMidnight}

\* the date and the time of day are those of one and the same reading
OfOneReading(d, t) ==
    \E reading \in ClockReadings :
        /\ d = DateFrom(reading)
        /\ t.hour = reading.hour /\ t.minute = reading.minute
        /\ t.second = reading.second /\ t.timezone = reading.timezone

\* a probe is awaited, or has been
ProbeAwaited == ipsTask # "idle" \/ timeTask # "idle"

\* C27: in the datetime command and in the everything snapshot the date and
\* the time of day come from one clock reading, taken before any probe is
\* awaited and kept since, so that they are consistent however long the NTP
\* and IP probes take: the date is never of another day than the time.
C27_DateAndTimeOfOneReading ==
    /\ [](/\ (command.name \in {"datetime", "everything"} /\ ProbeAwaited) => now.some
          /\ (command.name = "datetime" /\ result.some) =>
                /\ OfOneReading(result.v.v.value.date, result.v.v.value.time)
                /\ result.v.v.value.date = DateFrom(now.v)
          /\ EverythingReturned =>
                /\ OfOneReading(Snapshot.date, Snapshot.time)
                /\ Snapshot.date = DateFrom(now.v))
    /\ [][now.some => now' = now]_vars

\* midnight passed while the NTP query was awaited: the clock now reads Sunday,
\* the datetime printed is Saturday's, date and time
C27_Witness ==
    /\ command.name = "datetime" /\ pc = "done" /\ exit_code = Some(0)
    /\ clock = AfterMidnight /\ now = Some(LocalNow)
    /\ result.v.v.value.date.day_name = "Saturday" /\ result.v.v.value.time.hour = 20

\* the same in a snapshot, and a reading taken after midnight
C27_SnapshotAcrossMidnight ==
    /\ EverythingReturned /\ clock = AfterMidnight /\ now = Some(LocalNow)
    /\ Snapshot.date = DateFrom(LocalNow)
C27_LateReading ==
    /\ EverythingReturned /\ now = Some(AfterMidnight) /\ Snapshot.time.hour = 0

\* the place of the first c in text (0 if there is none)
IndexOf(text, c) ==
    IF \E i \in 1..Len(text) : SubSeq(text, i, i) = c
    THEN CHOOSE i \in 1..Len(text) :
            SubSeq(text, i, i) = c /\ \A j \in 1..(i - 1) : SubSeq(text, j, j) # c
    ELSE 0

\* what a scaled size prints between its point and its unit
PrintedFraction(text) == SubSeq(text, IndexOf(text, ".") + 1, IndexOf(text, " ") - 1)

Digits == {"0", "1", "2", "3", "4", "5", "6", "7", "8", "9"}

\* C28: for every 64-bit byte count of a scaled bracket, the product
\* (bytes mod unit) * 100 stays below 2^64, so the u64 product does not wrap,
\* and the fractional part printed is between 0 and 99: exactly two digits.
C28_ScaledProductFitsTwoDigits ==
    (SizeReturned /\ ~Less(arg.bytes, Unit(1))) =>
        LET remainder == Mod(arg.bytes, Unit(UnitIndex(arg.bytes)))
            fraction == PrintedFraction(ret.v)
        IN  /\ Less(MulSmall(remainder, 100), TwoTo64)
            /\ WrappingMulSmall(remainder, 100) = MulSmall(remainder, 100)
            /\ Len(fraction) = 2
            /\ \A i \in 1..2 : SubSeq(fraction, i, i) \in Digits

\* u64::MAX: the largest remainder there is, 2^50 - 1
C28_Witness ==
    /\ SizeReturned /\ arg.bytes = WideU64Max
    /\ Mod(arg.bytes, Unit(5)) = Sub(Unit(5), Wide(1))
    /\ ret.v = "16383.99 PiB"

====
